---- MODULE Spec2Model ----
(***************************************************************************)
(* MedVault: the authorization registry contract (contracts/MedVault.sol) *)
(* as a state machine.  Every external function is one transaction: it    *)
(* either runs to completion or reverts, and a revert discards every      *)
(* storage write and every event emitted since the call began.            *)
(* Events carry block.timestamp in the contract; the timestamp is not     *)
(* stored in the model (no function reads it back).  No function makes an *)
(* external call, so the nonReentrant modifier never rejects one.         *)
(***************************************************************************)
EXTENDS Integers, Sequences, FiniteSets, TLC

\* ------------------------------------------------------------------------
\* Bounds and input sets
\* ------------------------------------------------------------------------

\* longest audit log explored
MaxLog == 3

\* address(0)
NullAddr == 0

\* externally owned accounts that send transactions
Callers == {1, 2}

\* every value an address argument can take: the null address, the senders
\* and one account that only ever receives access
Addresses == {NullAddr, 1, 2, 3}

\* content identifiers passed to uploadRecord ("" is the empty string)
CIDs == {"", "QmA", "QmB"}

\* wrapped keys passed to grantAccess (<<>> is the empty byte string)
Keys == {<<>>, <<171>>, <<205, 239>>}

\* longest array passed to a batch function
MaxBatch == 2

\* argument pairs <<grantees, wrappedKeys>> passed to batchGrantAccess: empty
\* arrays, arrays of different length, one and two valid elements, a
\* recipient listed twice, a null recipient or an empty key after a valid
\* element, and three valid elements
BatchInputs ==
    {p \in { << <<>>, <<>> >>,
             << <<3>>, <<>> >>,
             << <<3>>, << <<171>> >> >>,
             << <<2, 3>>, << <<171>> >> >>,
             << <<2, 3>>, << <<171>>, <<205, 239>> >> >>,
             << <<1, 2>>, << <<205, 239>>, <<171>> >> >>,
             << <<3, 3>>, << <<171>>, <<205, 239>> >> >>,
             << <<3, NullAddr>>, << <<171>>, <<205, 239>> >> >>,
             << <<2, 3>>, << <<171>>, <<>> >> >>,
             << <<3, 2, 1>>, << <<171>>, <<205, 239>>, <<171>> >> >> } :
         Len(p[1]) <= MaxBatch /\ Len(p[2]) <= MaxBatch}

\* arrays passed to batchRevokeAccess
BatchGrantees == {p[1] : p \in BatchInputs}

\* ------------------------------------------------------------------------
\* State
\* ------------------------------------------------------------------------

VARIABLES
    records,            \* mapping(address => string)
    hasRecord,          \* mapping(address => bool)
    accessPermissions,  \* mapping(address => mapping(address => bool))
    encryptedSymKeys,   \* mapping(address => mapping(address => bytes))
    log,                \* the chain's event log of the contract, in emit order
    lastCall,           \* the most recent transaction and its outcome
    scenario,           \* position in the complete-flow scenario, or NoScenario
    client              \* what a browser session of the front end holds

vars == <<records, hasRecord, accessPermissions, encryptedSymKeys, log,
          lastCall, scenario, client>>

\* the contract storage plus the event log, as one value
World == [records |-> records, hasRecord |-> hasRecord,
          accessPermissions |-> accessPermissions,
          encryptedSymKeys |-> encryptedSymKeys, log |-> log]

\* ------------------------------------------------------------------------
\* Events
\* ------------------------------------------------------------------------

RecordUploaded(patient, cid) ==
    [event |-> "RecordUploaded", patient |-> patient, cid |-> cid]

AccessUpdated(patient, grantee, granted) ==
    [event |-> "AccessUpdated", patient |-> patient, grantee |-> grantee,
     granted |-> granted]

AccessAttempt(accessor, patient, cid, success) ==
    [event |-> "AccessAttempt", accessor |-> accessor, patient |-> patient,
     cid |-> cid, success |-> success]

\* emit: the event is appended to the transaction's log
Emit_Overwrite(w, ev) ==
    [w EXCEPT !.log = IF Len(@) = 0 THEN <<ev>>
                      ELSE [@ EXCEPT ![Len(@)] = ev]]

Emit(w, ev) == [w EXCEPT !.log = Append(@, ev)]

\* ------------------------------------------------------------------------
\* Transaction outcomes
\* ------------------------------------------------------------------------

NoValue == "<none>"

\* a require that fails: the whole transaction reverts to the world w0 it
\* started from
Revert(w0, msg) == [ok |-> FALSE, err |-> msg, ret |-> NoValue, w |-> w0]

Return(w, value) == [ok |-> TRUE, err |-> "", ret |-> value, w |-> w]

\* ------------------------------------------------------------------------
\* Contract functions.  sender is msg.sender.
\* ------------------------------------------------------------------------

uploadRecord_NoRequire(w, sender, cid) ==
    LET w1 == [w EXCEPT !.records[sender] = cid]
        w2 == [w1 EXCEPT !.hasRecord[sender] = TRUE]
    IN  Return(Emit(w2, RecordUploaded(sender, cid)), NoValue)

uploadRecord_NoOverwrite(w, sender, cid) ==
    IF ~(Len(cid) > 0) THEN Revert(w, "MedVault: CID cannot be empty")
    ELSE
    LET w1 == IF w.hasRecord[sender] THEN w
              ELSE [w EXCEPT !.records[sender] = cid]
        w2 == [w1 EXCEPT !.hasRecord[sender] = TRUE]
    IN  Return(Emit(w2, RecordUploaded(sender, cid)), NoValue)

uploadRecord(w, sender, cid) ==
    IF ~(Len(cid) > 0) THEN Revert(w, "MedVault: CID cannot be empty")
    ELSE
    LET w1 == [w EXCEPT !.records[sender] = cid]
        w2 == [w1 EXCEPT !.hasRecord[sender] = TRUE]
    IN  Return(Emit(w2, RecordUploaded(sender, cid)), NoValue)

\* internal: the result's w is the world after the writes; on failure the
\* caller reverts
_grantAccess_SwappedKeys(w, sender, grantee, wrappedKey) ==
    IF ~(grantee # NullAddr) THEN
        [ok |-> FALSE, err |-> "MedVault: invalid grantee address", w |-> w]
    ELSE IF ~(Len(wrappedKey) > 0) THEN
        [ok |-> FALSE, err |-> "MedVault: wrapped key cannot be empty", w |-> w]
    ELSE
    LET w1 == [w EXCEPT !.accessPermissions[grantee][sender] = TRUE]
        w2 == [w1 EXCEPT !.encryptedSymKeys[grantee][sender] = wrappedKey]
    IN  [ok |-> TRUE, err |-> "",
         w |-> Emit(w2, AccessUpdated(sender, grantee, TRUE))]

_grantAccess_NoKeyCheck(w, sender, grantee, wrappedKey) ==
    IF ~(grantee # NullAddr) THEN
        [ok |-> FALSE, err |-> "MedVault: invalid grantee address", w |-> w]
    ELSE
    LET w1 == [w EXCEPT !.accessPermissions[sender][grantee] = TRUE]
        w2 == [w1 EXCEPT !.encryptedSymKeys[sender][grantee] = wrappedKey]
    IN  [ok |-> TRUE, err |-> "",
         w |-> Emit(w2, AccessUpdated(sender, grantee, TRUE))]

_grantAccess_NoRegrant(w, sender, grantee, wrappedKey) ==
    IF ~(grantee # NullAddr) THEN
        [ok |-> FALSE, err |-> "MedVault: invalid grantee address", w |-> w]
    ELSE IF ~(Len(wrappedKey) > 0) THEN
        [ok |-> FALSE, err |-> "MedVault: wrapped key cannot be empty", w |-> w]
    ELSE IF \E i \in 1..Len(w.log) :
                w.log[i] = AccessUpdated(sender, grantee, FALSE) THEN
        [ok |-> FALSE, err |-> "MedVault: access was revoked", w |-> w]
    ELSE
    LET w1 == [w EXCEPT !.accessPermissions[sender][grantee] = TRUE]
        w2 == [w1 EXCEPT !.encryptedSymKeys[sender][grantee] = wrappedKey]
    IN  [ok |-> TRUE, err |-> "",
         w |-> Emit(w2, AccessUpdated(sender, grantee, TRUE))]

_grantAccess_SilentRegrant(w, sender, grantee, wrappedKey) ==
    IF ~(grantee # NullAddr) THEN
        [ok |-> FALSE, err |-> "MedVault: invalid grantee address", w |-> w]
    ELSE IF ~(Len(wrappedKey) > 0) THEN
        [ok |-> FALSE, err |-> "MedVault: wrapped key cannot be empty", w |-> w]
    ELSE
    LET w1 == [w EXCEPT !.accessPermissions[sender][grantee] = TRUE]
        w2 == [w1 EXCEPT !.encryptedSymKeys[sender][grantee] = wrappedKey]
    IN  [ok |-> TRUE, err |-> "",
         w |-> IF w.accessPermissions[sender][grantee] THEN w2
               ELSE Emit(w2, AccessUpdated(sender, grantee, TRUE))]

_grantAccess(w, sender, grantee, wrappedKey) ==
    IF ~(grantee # NullAddr) THEN
        [ok |-> FALSE, err |-> "MedVault: invalid grantee address", w |-> w]
    ELSE IF ~(Len(wrappedKey) > 0) THEN
        [ok |-> FALSE, err |-> "MedVault: wrapped key cannot be empty", w |-> w]
    ELSE
    LET w1 == [w EXCEPT !.accessPermissions[sender][grantee] = TRUE]
        w2 == [w1 EXCEPT !.encryptedSymKeys[sender][grantee] = wrappedKey]
    IN  [ok |-> TRUE, err |-> "",
         w |-> Emit(w2, AccessUpdated(sender, grantee, TRUE))]

\* modifier onlyPatient(patient)
onlyPatient(sender, patient) == sender = patient

patientHasRecord_Skipped(w, patient) == TRUE

\* modifier patientHasRecord(patient)
patientHasRecord(w, patient) == w.hasRecord[patient]

grantAccess(w, sender, grantee, wrappedKey) ==
    IF ~onlyPatient(sender, sender) THEN
        Revert(w, "MedVault: caller is not the patient")
    ELSE IF ~patientHasRecord(w, sender) THEN
        Revert(w, "MedVault: patient has no record")
    ELSE
    LET r == _grantAccess(w, sender, grantee, wrappedKey)
    IN  IF r.ok THEN Return(r.w, NoValue) ELSE Revert(w, r.err)

_revokeAccess_KeepFlag(w, sender, grantee) ==
    IF ~(grantee # NullAddr) THEN
        [ok |-> FALSE, err |-> "MedVault: invalid grantee address", w |-> w]
    ELSE IF w.accessPermissions[sender][grantee] THEN
        LET w2 == [w EXCEPT !.encryptedSymKeys[sender][grantee] = <<>>]
        IN  [ok |-> TRUE, err |-> "",
             w |-> Emit(w2, AccessUpdated(sender, grantee, FALSE))]
    ELSE [ok |-> TRUE, err |-> "", w |-> w]

_revokeAccess_AlwaysEmit(w, sender, grantee) ==
    IF ~(grantee # NullAddr) THEN
        [ok |-> FALSE, err |-> "MedVault: invalid grantee address", w |-> w]
    ELSE
        LET w1 == [w EXCEPT !.accessPermissions[sender][grantee] = FALSE]
            w2 == [w1 EXCEPT !.encryptedSymKeys[sender][grantee] = <<>>]
        IN  [ok |-> TRUE, err |-> "",
             w |-> Emit(w2, AccessUpdated(sender, grantee, FALSE))]

_revokeAccess_KeepKey(w, sender, grantee) ==
    IF ~(grantee # NullAddr) THEN
        [ok |-> FALSE, err |-> "MedVault: invalid grantee address", w |-> w]
    ELSE IF w.accessPermissions[sender][grantee] THEN
        LET w1 == [w EXCEPT !.accessPermissions[sender][grantee] = FALSE]
        IN  [ok |-> TRUE, err |-> "",
             w |-> Emit(w1, AccessUpdated(sender, grantee, FALSE))]
    ELSE [ok |-> TRUE, err |-> "", w |-> w]

_revokeAccess_DropsRecord(w, sender, grantee) ==
    IF ~(grantee # NullAddr) THEN
        [ok |-> FALSE, err |-> "MedVault: invalid grantee address", w |-> w]
    ELSE IF w.accessPermissions[sender][grantee] THEN
        LET w1 == [w EXCEPT !.accessPermissions[sender][grantee] = FALSE]
            w2 == [w1 EXCEPT !.encryptedSymKeys[sender][grantee] = <<>>]
            w3 == [w2 EXCEPT !.hasRecord[sender] = FALSE]
        IN  [ok |-> TRUE, err |-> "",
             w |-> Emit(w3, AccessUpdated(sender, grantee, FALSE))]
    ELSE [ok |-> TRUE, err |-> "", w |-> w]

_revokeAccess_RequiresGrant(w, sender, grantee) ==
    IF ~(grantee # NullAddr) THEN
        [ok |-> FALSE, err |-> "MedVault: invalid grantee address", w |-> w]
    ELSE IF ~w.accessPermissions[sender][grantee] THEN
        [ok |-> FALSE, err |-> "MedVault: no access permission", w |-> w]
    ELSE
        LET w1 == [w EXCEPT !.accessPermissions[sender][grantee] = FALSE]
            w2 == [w1 EXCEPT !.encryptedSymKeys[sender][grantee] = <<>>]
        IN  [ok |-> TRUE, err |-> "",
             w |-> Emit(w2, AccessUpdated(sender, grantee, FALSE))]

_revokeAccess_NoEvent(w, sender, grantee) ==
    IF ~(grantee # NullAddr) THEN
        [ok |-> FALSE, err |-> "MedVault: invalid grantee address", w |-> w]
    ELSE IF w.accessPermissions[sender][grantee] THEN
        LET w1 == [w EXCEPT !.accessPermissions[sender][grantee] = FALSE]
            w2 == [w1 EXCEPT !.encryptedSymKeys[sender][grantee] = <<>>]
        IN  [ok |-> TRUE, err |-> "", w |-> w2]
    ELSE [ok |-> TRUE, err |-> "", w |-> w]

_revokeAccess(w, sender, grantee) ==
    IF ~(grantee # NullAddr) THEN
        [ok |-> FALSE, err |-> "MedVault: invalid grantee address", w |-> w]
    ELSE IF w.accessPermissions[sender][grantee] THEN
        LET w1 == [w EXCEPT !.accessPermissions[sender][grantee] = FALSE]
            \* delete resets the bytes to the empty byte string
            w2 == [w1 EXCEPT !.encryptedSymKeys[sender][grantee] = <<>>]
        IN  [ok |-> TRUE, err |-> "",
             w |-> Emit(w2, AccessUpdated(sender, grantee, FALSE))]
    ELSE [ok |-> TRUE, err |-> "", w |-> w]

revokeAccess(w, sender, grantee) ==
    IF ~onlyPatient(sender, sender) THEN
        Revert(w, "MedVault: caller is not the patient")
    ELSE IF ~patientHasRecord(w, sender) THEN
        Revert(w, "MedVault: patient has no record")
    ELSE
    LET r == _revokeAccess(w, sender, grantee)
    IN  IF r.ok THEN Return(r.w, NoValue) ELSE Revert(w, r.err)

RECURSIVE grantLoop_SkipListed(_, _, _, _, _)
grantLoop_SkipListed(w, sender, grantees, wrappedKeys, i) ==
    IF ~(i <= Len(grantees)) THEN [ok |-> TRUE, err |-> "", w |-> w]
    ELSE IF \E j \in 1..(i - 1) : grantees[j] = grantees[i] THEN
        grantLoop_SkipListed(w, sender, grantees, wrappedKeys, i + 1)
    ELSE LET r == _grantAccess(w, sender, grantees[i], wrappedKeys[i])
         IN  IF ~r.ok THEN r
             ELSE grantLoop_SkipListed(r.w, sender, grantees, wrappedKeys,
                                       i + 1)

\* the for loop of batchGrantAccess from index i on; stops at the first
\* failing _grantAccess
RECURSIVE grantLoop(_, _, _, _, _)
grantLoop(w, sender, grantees, wrappedKeys, i) ==
    IF ~(i <= Len(grantees)) THEN [ok |-> TRUE, err |-> "", w |-> w]
    ELSE LET r == _grantAccess(w, sender, grantees[i], wrappedKeys[i])
         IN  IF ~r.ok THEN r
             ELSE grantLoop(r.w, sender, grantees, wrappedKeys, i + 1)

batchGrantAccess_KeepsPartial(w, sender, grantees, wrappedKeys) ==
    IF ~onlyPatient(sender, sender) THEN
        Revert(w, "MedVault: caller is not the patient")
    ELSE IF ~patientHasRecord(w, sender) THEN
        Revert(w, "MedVault: patient has no record")
    ELSE IF ~(Len(grantees) = Len(wrappedKeys)) THEN
        Revert(w, "MedVault: array length mismatch")
    ELSE IF ~(Len(grantees) > 0) THEN
        Revert(w, "MedVault: empty input arrays")
    ELSE
    LET r == grantLoop(w, sender, grantees, wrappedKeys, 1)
    IN  IF r.ok THEN Return(r.w, NoValue) ELSE Revert(r.w, r.err)

batchGrantAccess(w, sender, grantees, wrappedKeys) ==
    IF ~onlyPatient(sender, sender) THEN
        Revert(w, "MedVault: caller is not the patient")
    ELSE IF ~patientHasRecord(w, sender) THEN
        Revert(w, "MedVault: patient has no record")
    ELSE IF ~(Len(grantees) = Len(wrappedKeys)) THEN
        Revert(w, "MedVault: array length mismatch")
    ELSE IF ~(Len(grantees) > 0) THEN
        Revert(w, "MedVault: empty input arrays")
    ELSE
    LET r == grantLoop(w, sender, grantees, wrappedKeys, 1)
    IN  IF r.ok THEN Return(r.w, NoValue) ELSE Revert(w, r.err)

\* the for loop of batchRevokeAccess from index i on
RECURSIVE revokeLoop(_, _, _, _)
revokeLoop(w, sender, grantees, i) ==
    IF ~(i <= Len(grantees)) THEN [ok |-> TRUE, err |-> "", w |-> w]
    ELSE LET r == _revokeAccess(w, sender, grantees[i])
         IN  IF ~r.ok THEN r
             ELSE revokeLoop(r.w, sender, grantees, i + 1)

batchRevokeAccess(w, sender, grantees) ==
    IF ~onlyPatient(sender, sender) THEN
        Revert(w, "MedVault: caller is not the patient")
    ELSE IF ~patientHasRecord(w, sender) THEN
        Revert(w, "MedVault: patient has no record")
    ELSE IF ~(Len(grantees) > 0) THEN
        Revert(w, "MedVault: empty input array")
    ELSE
    LET r == revokeLoop(w, sender, grantees, 1)
    IN  IF r.ok THEN Return(r.w, NoValue) ELSE Revert(w, r.err)

getRecord_AnyGrant(w, sender, patient) ==
    IF ~patientHasRecord(w, patient) THEN
        Revert(w, "MedVault: patient has no record")
    ELSE
    LET recordCid == w.records[patient]
        hasAccess == (sender = patient)
                     \/ \E p \in Addresses : w.accessPermissions[p][sender]
        w1 == Emit(w, AccessAttempt(sender, patient,
                                    IF hasAccess THEN recordCid ELSE "",
                                    hasAccess))
    IN  IF ~hasAccess THEN Revert(w, "MedVault: access denied")
        ELSE Return(w1, recordCid)

getRecord_OwnerBypass(w, sender, patient) ==
    IF sender # patient /\ ~patientHasRecord(w, patient) THEN
        Revert(w, "MedVault: patient has no record")
    ELSE
    LET recordCid == w.records[patient]
        hasAccess == (sender = patient) \/ w.accessPermissions[patient][sender]
        w1 == Emit(w, AccessAttempt(sender, patient,
                                    IF hasAccess THEN recordCid ELSE "",
                                    hasAccess))
    IN  IF ~hasAccess THEN Revert(w, "MedVault: access denied")
        ELSE Return(w1, recordCid)

getRecord(w, sender, patient) ==
    IF ~patientHasRecord(w, patient) THEN
        Revert(w, "MedVault: patient has no record")
    ELSE
    LET recordCid == w.records[patient]
        hasAccess == (sender = patient) \/ w.accessPermissions[patient][sender]
        w1 == Emit(w, AccessAttempt(sender, patient,
                                    IF hasAccess THEN recordCid ELSE "",
                                    hasAccess))
    IN  \* the require follows the emit: a denial reverts the emit with it
        IF ~hasAccess THEN Revert(w, "MedVault: access denied")
        ELSE Return(w1, recordCid)

getWrappedKey_OwnKeys(w, sender, patient) ==
    IF ~patientHasRecord(w, patient) THEN
        Revert(w, "MedVault: patient has no record")
    ELSE IF ~w.accessPermissions[patient][sender] THEN
        Revert(w, "MedVault: no access permission")
    ELSE Return(w, w.encryptedSymKeys[sender][patient])

getWrappedKey_OwnerPasses(w, sender, patient) ==
    IF ~patientHasRecord(w, patient) THEN
        Revert(w, "MedVault: patient has no record")
    ELSE IF ~((sender = patient) \/ w.accessPermissions[patient][sender]) THEN
        Revert(w, "MedVault: no access permission")
    ELSE Return(w, w.encryptedSymKeys[patient][sender])

getWrappedKey(w, sender, patient) ==
    IF ~patientHasRecord(w, patient) THEN
        Revert(w, "MedVault: patient has no record")
    ELSE IF ~w.accessPermissions[patient][sender] THEN
        Revert(w, "MedVault: no access permission")
    ELSE Return(w, w.encryptedSymKeys[patient][sender])

checkAccess(w, patient, accessor) ==
    (accessor = patient) \/ w.accessPermissions[patient][accessor]

getRecordCID_Audited(w, sender, patient) ==
    IF ~onlyPatient(sender, patient) THEN
        Revert(w, "MedVault: caller is not the patient")
    ELSE IF ~patientHasRecord(w, patient) THEN
        Revert(w, "MedVault: patient has no record")
    ELSE Return(Emit(w, AccessAttempt(sender, patient, w.records[patient],
                                      TRUE)),
                w.records[patient])

getRecordCID_AnyReader(w, sender, patient) ==
    IF ~checkAccess(w, patient, sender) THEN
        Revert(w, "MedVault: caller is not the patient")
    ELSE IF ~patientHasRecord(w, patient) THEN
        Revert(w, "MedVault: patient has no record")
    ELSE Return(w, w.records[patient])

getRecordCID(w, sender, patient) ==
    IF ~onlyPatient(sender, patient) THEN
        Revert(w, "MedVault: caller is not the patient")
    ELSE IF ~patientHasRecord(w, patient) THEN
        Revert(w, "MedVault: patient has no record")
    ELSE Return(w, w.records[patient])

\* ------------------------------------------------------------------------
\* Transactions as actions
\* ------------------------------------------------------------------------

NoScenario == [pc |-> "free"]

\* a browser session that has not called a crypto helper yet
Idle == [pc |-> "idle"]

NoCall == [op |-> "none", ok |-> TRUE, err |-> "", ret |-> NoValue,
           emitted |-> 0]

\* what the sender of a transaction observes of it: the function, whether it
\* returned or reverted, the revert reason, the return value and the number
\* of events it left in the log
Call(op, res) ==
    [op |-> op, ok |-> res.ok, err |-> res.err, ret |-> res.ret,
     emitted |-> Len(res.w.log) - Len(log)]

\* the transaction's outcome becomes the new storage and log
Commit(res, call) ==
    /\ records' = res.w.records
    /\ hasRecord' = res.w.hasRecord
    /\ accessPermissions' = res.w.accessPermissions
    /\ encryptedSymKeys' = res.w.encryptedSymKeys
    /\ log' = res.w.log
    /\ lastCall' = call

UploadRecord(sender, cid) ==
    LET res == uploadRecord(World, sender, cid)
    IN  Commit(res, Call("uploadRecord", res))

GrantAccess(sender, grantee, wrappedKey) ==
    LET res == grantAccess(World, sender, grantee, wrappedKey)
    IN  Commit(res, Call("grantAccess", res))

RevokeAccess(sender, grantee) ==
    LET res == revokeAccess(World, sender, grantee)
    IN  Commit(res, Call("revokeAccess", res))

GetRecord(sender, patient) ==
    LET res == getRecord(World, sender, patient)
    IN  Commit(res, Call("getRecord", res))

BatchGrantAccess(sender, grantees, wrappedKeys) ==
    LET res == batchGrantAccess(World, sender, grantees, wrappedKeys)
    IN  Commit(res, Call("batchGrantAccess", res))

BatchRevokeAccess(sender, grantees) ==
    LET res == batchRevokeAccess(World, sender, grantees)
    IN  Commit(res, Call("batchRevokeAccess", res))

\* storage of a freshly deployed contract: every mapping holds its default
InitStorage ==
    /\ records = [a \in Addresses |-> ""]
    /\ hasRecord = [a \in Addresses |-> FALSE]
    /\ accessPermissions = [a \in Addresses |-> [b \in Addresses |-> FALSE]]
    /\ encryptedSymKeys = [a \in Addresses |-> [b \in Addresses |-> <<>>]]
    /\ log = <<>>
    /\ lastCall = NoCall

Init ==
    /\ InitStorage
    /\ scenario = NoScenario
    /\ client = Idle

\* the transaction returned; one that reverts leaves storage and log as they
\* were, so it is no step of the contract's state
Returned == lastCall'.ok

\* the explored log stays within MaxLog entries
WithinLog == Len(log') <= MaxLog

Next ==
    \/ \E s \in Callers, c \in CIDs :
           UploadRecord(s, c) /\ Returned /\ WithinLog /\ UNCHANGED <<scenario, client>>
    \/ \E s \in Callers, g \in Addresses, k \in Keys :
           GrantAccess(s, g, k) /\ Returned /\ WithinLog /\ UNCHANGED <<scenario, client>>
    \/ \E s \in Callers, g \in Addresses :
           RevokeAccess(s, g) /\ Returned /\ WithinLog /\ UNCHANGED <<scenario, client>>
    \/ \E s \in Callers, p \in Addresses :
           GetRecord(s, p) /\ Returned /\ WithinLog /\ UNCHANGED <<scenario, client>>
    \/ \E s \in Callers, b \in BatchInputs :
           /\ BatchGrantAccess(s, b[1], b[2])
           /\ Returned /\ WithinLog /\ UNCHANGED <<scenario, client>>
    \/ \E s \in Callers, gs \in BatchGrantees :
           BatchRevokeAccess(s, gs) /\ Returned /\ WithinLog /\ UNCHANGED <<scenario, client>>

Spec == Init /\ [][Next]_vars

\* the same contract under the same transactions, for the properties of its
\* reads, its revocations and its event log
LedgerSpec == Init /\ [][Next]_vars

\* ------------------------------------------------------------------------
\* The complete flow of the test suite (testCompleteFlow with the owner's
\* own read of testGetRecordByPatient and the denied read of
\* testGetRecordAfterRevokeFails), for every choice of patient P, recipient
\* M, content identifier and wrapped key
\* ------------------------------------------------------------------------

Accounts == Addresses \ {NullAddr}

ScenarioInit ==
    /\ InitStorage
    /\ \E P \in Accounts, M \in Accounts, ref \in CIDs, k \in Keys :
          /\ P # M
          /\ ref # ""
          /\ k # <<>>
          /\ scenario = [pc |-> 0, P |-> P, M |-> M, ref |-> ref, k |-> k]
    /\ client = Idle

ScenarioStep(n) ==
    /\ scenario' = [scenario EXCEPT !.pc = n]
    /\ UNCHANGED client

ScenarioNext ==
    \/ /\ scenario.pc = 0
       /\ UploadRecord(scenario.P, scenario.ref)
       /\ ScenarioStep(1)
    \/ /\ scenario.pc = 1
       /\ GetRecord(scenario.P, scenario.P)
       /\ ScenarioStep(2)
    \/ /\ scenario.pc = 2
       /\ GrantAccess(scenario.P, scenario.M, scenario.k)
       /\ ScenarioStep(3)
    \/ /\ scenario.pc = 3
       /\ GetRecord(scenario.M, scenario.P)
       /\ ScenarioStep(4)
    \/ /\ scenario.pc = 4
       /\ RevokeAccess(scenario.P, scenario.M)
       /\ ScenarioStep(5)
    \/ /\ scenario.pc = 5
       /\ GetRecord(scenario.M, scenario.P)
       /\ ScenarioStep(6)

ScenarioSpec == ScenarioInit /\ [][ScenarioNext]_vars

\* ------------------------------------------------------------------------
\* The crypto helpers of the front end (cryptoHelpers.js).  Byte arrays are
\* sequences of 0..255 and strings are sequences of one-character strings.
\* The library primitives (keccak256, SHA-256, secp256k1, AES-GCM) are
\* scaled-down stand-ins that keep the lengths and the algebra the helpers
\* rely on; the values the helpers draw at random are arguments.
\* ------------------------------------------------------------------------

\* longest file content that is encrypted
MaxFileLen == 2

\* Uint8Array.prototype.slice(a, b) and slice(a)
Slice(s, a, b) == SubSeq(s, a + 1, IF b < Len(s) THEN b ELSE Len(s))

SliceFrom(s, a) == SubSeq(s, a + 1, Len(s))

\* the printable ASCII characters, code 32 first; the grave accent, which
\* cannot be written in a string here, is spelled out
Alphabet ==
    << " ", "!", "\"", "#", "$", "%", "&", "'", "(", ")", "*", "+", ",", "-",
       ".", "/", "0", "1", "2", "3", "4", "5", "6", "7", "8", "9", ":", ";",
       "<", "=", ">", "?", "@", "A", "B", "C", "D", "E", "F", "G", "H", "I",
       "J", "K", "L", "M", "N", "O", "P", "Q", "R", "S", "T", "U", "V", "W",
       "X", "Y", "Z", "[", "\\", "]", "^", "_", "<grave>", "a", "b", "c", "d", "e",
       "f", "g", "h", "i", "j", "k", "l", "m", "n", "o", "p", "q", "r", "s",
       "t", "u", "v", "w", "x", "y", "z", "{", "|", "}", "~" >>

CharCode(c) == 31 + CHOOSE i \in 1..Len(Alphabet) : Alphabet[i] = c

\* String.prototype.toLowerCase
toLowerCase(str) ==
    [i \in 1..Len(str) |->
        LET k == CharCode(str[i])
        IN  IF k >= 65 /\ k <= 90 THEN Alphabet[k + 32 - 31] ELSE str[i]]

\* ethers.toUtf8Bytes and TextEncoder.encode
toUtf8Bytes(str) == [i \in 1..Len(str) |-> CharCode(str[i])]

\* TextDecoder.decode; a byte that is no printable character decodes to the
\* replacement character, written "?"
decodeUtf8(bytes) ==
    [i \in 1..Len(bytes) |->
        IF bytes[i] >= 32 /\ bytes[i] <= 126 THEN Alphabet[bytes[i] - 31]
        ELSE "?"]

HexDigits ==
    <<"0", "1", "2", "3", "4", "5", "6", "7", "8", "9", "a", "b", "c", "d",
      "e", "f">>

IsHexDigit(c) == \E i \in 1..16 : HexDigits[i] = c

HexVal(c) == (CHOOSE i \in 1..16 : HexDigits[i] = c) - 1

\* ethers.hexlify: "0x" and two lower-case digits per byte
hexlify(bytes) ==
    [i \in 1..(2 + (2 * Len(bytes))) |->
        IF i = 1 THEN "0"
        ELSE IF i = 2 THEN "x"
        ELSE IF i % 2 = 1 THEN HexDigits[(bytes[(i - 1) \div 2] \div 16) + 1]
        ELSE HexDigits[(bytes[(i - 2) \div 2] % 16) + 1]]

\* the strings ethers.getBytes accepts
IsHexString(str) ==
    /\ Len(str) >= 2 /\ Len(str) % 2 = 0
    /\ str[1] = "0" /\ str[2] = "x"
    /\ \A i \in 3..Len(str) : IsHexDigit(toLowerCase(<<str[i]>>)[1])

\* ethers.getBytes of a hex string
getBytes(str) ==
    [i \in 1..((Len(str) - 2) \div 2) |->
        (16 * HexVal(toLowerCase(<<str[(2 * i) + 1]>>)[1]))
        + HexVal(toLowerCase(<<str[(2 * i) + 2]>>)[1])]

\* a polynomial checksum of a byte array: the core of the stand-in hashes
\* (the comparison of next makes the evaluator compute it before the loop
\* goes on)
RECURSIVE Mix(_, _, _)
Mix(bytes, i, acc) ==
    IF i > Len(bytes) THEN acc
    ELSE LET next == ((acc * 31) + bytes[i] + 1) % 65521
         IN  IF next < 0 THEN 0 ELSE Mix(bytes, i + 1, next)

\* a 32-byte digest that carries the checksum
Digest32(sum) ==
    [i \in 1..32 |->
        IF i = 1 THEN sum % 256
        ELSE IF i = 2 THEN sum \div 256
        ELSE ((sum * i) + i) % 256]

\* ethers.keccak256: the digest as a hex string
keccak256(bytes) == hexlify(Digest32(Mix(bytes, 1, 17)))

\* crypto.subtle.digest('SHA-256', bytes)
sha256(bytes) == Digest32(Mix(bytes, 1, 29))

\* the stand-in for secp256k1: the subgroup of prime order GroupOrder
\* generated by Generator in the integers modulo FieldPrime
FieldPrime == 23
GroupOrder == 11
Generator == 2

RECURSIVE ModExp(_, _)
ModExp(base, e) ==
    IF e = 0 THEN 1 ELSE (base * ModExp(base, e - 1)) % FieldPrime

\* a 32-byte private key as a scalar in 1..GroupOrder-1
RECURSIVE ScalarFrom(_, _, _)
ScalarFrom(bytes, i, acc) ==
    IF i > Len(bytes) THEN 1 + acc
    ELSE LET next == ((acc * 256) + bytes[i]) % (GroupOrder - 1)
         IN  IF next < 0 THEN 0 ELSE ScalarFrom(bytes, i + 1, next)

ScalarOf(sk) == ScalarFrom(sk, 1, 0)

\* a compressed point: one prefix byte and the 32-byte coordinate
EncodePoint(x) == <<2 + (x % 2)>> \o [i \in 1..31 |-> 0] \o <<x>>

DecodePoint(pk) == pk[33]

\* secp256k1.getPublicKey(privKey, true)
getPublicKey(sk) == EncodePoint(ModExp(Generator, ScalarOf(sk)))

\* secp256k1.getSharedSecret(privKey, pubKey, true)
getSharedSecret(sk, pk) ==
    EncodePoint(ModExp(DecodePoint(pk), ScalarOf(sk)))

\* a CryptoKey for AES-GCM holding the raw key bytes
importAESKey(rawKey) == [algorithm |-> "AES-GCM", raw |-> rawKey]

exportAESKeyRaw(key) == key.raw

\* the stand-in for AES-256-GCM: a keystream that depends on key and IV,
\* and a 16-byte tag over key, IV and ciphertext
KeyStream(k, nonce) == (Mix(k.raw, 1, 7) + Mix(nonce, 1, 11)) % 256

GcmTag(k, nonce, ct) ==
    LET h == Mix(ct, 1, Mix(nonce, 1, Mix(k.raw, 1, 3)))
    IN  <<h % 256, h \div 256>> \o [j \in 1..14 |-> (h + j) % 256]

\* crypto.subtle.encrypt: the encrypted bytes followed by the tag
subtleEncrypt(k, nonce, pt) ==
    LET ks == KeyStream(k, nonce)
        body == [i \in 1..Len(pt) |-> (pt[i] + ks + i) % 256]
    IN  body \o GcmTag(k, nonce, body)

\* crypto.subtle.decrypt: rejects when the tag does not verify
subtleDecrypt(k, nonce, input) ==
    IF Len(input) < 16 THEN [ok |-> FALSE, err |-> "OperationError"]
    ELSE
    LET body == SubSeq(input, 1, Len(input) - 16)
        tag == SubSeq(input, Len(input) - 15, Len(input))
        ks == KeyStream(k, nonce)
    IN  IF tag # GcmTag(k, nonce, body) THEN
            [ok |-> FALSE, err |-> "OperationError"]
        ELSE [ok |-> TRUE,
              val |-> [i \in 1..Len(body) |->
                          (body[i] + 512 - ks - i) % 256]]

\* encryptAES(data, key) with the IV that getRandomValues drew
encryptAES(data, key, iv) ==
    [ciphertext |-> subtleEncrypt(key, iv, data), iv |-> iv]

\* decryptAES: the plaintext, or the error thrown
decryptAES_Unauthenticated(ciphertext, key, iv) ==
    IF Len(ciphertext) < 16 THEN [ok |-> FALSE, err |-> "OperationError"]
    ELSE [ok |-> TRUE,
          val |-> [i \in 1..(Len(ciphertext) - 16) |->
                      (ciphertext[i] + 512 - KeyStream(key, iv) - i) % 256]]

decryptAES(ciphertext, key, iv) == subtleDecrypt(key, iv, ciphertext)

derivePublicKeyFromAddress(address) ==
    LET hash == keccak256(toUtf8Bytes(toLowerCase(address)))
        hashBytes == getBytes(hash)
        privKey == Slice(hashBytes, 0, 32)
        pubKey == getPublicKey(privKey)
    IN  pubKey

\* Uint8Array.prototype.set(source, offset)
SetAt(array, source, offset) ==
    [i \in 1..Len(array) |->
        IF i > offset /\ i <= offset + Len(source) THEN source[i - offset]
        ELSE array[i]]

\* new Uint8Array(n)
Zeros(n) == [i \in 1..n |-> 0]

\* wrapKeyForRecipient with the ephemeral private key and the IV it drew
wrapKeyForRecipient(aesKeyRaw, recipientAddress, ephemeralPrivKey, iv) ==
    LET ephemeralPubKey == getPublicKey(ephemeralPrivKey)
        recipientPubKey == derivePublicKeyFromAddress(recipientAddress)
        sharedPoint == getSharedSecret(ephemeralPrivKey, recipientPubKey)
        sharedSecretHash == sha256(Slice(sharedPoint, 1, 33))
        encryptionKey == importAESKey(sharedSecretHash)
        enc == encryptAES(aesKeyRaw, encryptionKey, iv)
        buf0 == Zeros(33 + 12 + Len(enc.ciphertext))
        buf1 == SetAt(buf0, ephemeralPubKey, 0)
        buf2 == SetAt(buf1, enc.iv, 33)
        wrapped == SetAt(buf2, enc.ciphertext, 45)
    IN  hexlify(wrapped)

unwrapKeyWithSigner_CaseSensitive(wrappedKeyHex, signerAddress) ==
    IF ~IsHexString(wrappedKeyHex) THEN
        [ok |-> FALSE, err |-> "invalid BytesLike value"]
    ELSE
    LET wrapped == getBytes(wrappedKeyHex)
        ephemeralPubKey == Slice(wrapped, 0, 33)
        iv == Slice(wrapped, 33, 45)
        ciphertext == SliceFrom(wrapped, 45)
        hash == keccak256(toUtf8Bytes(signerAddress))
        hashBytes == getBytes(hash)
        recipientPrivKey == Slice(hashBytes, 0, 32)
    IN  IF Len(ephemeralPubKey) # 33 THEN
            [ok |-> FALSE, err |-> "invalid public key"]
        ELSE
        LET sharedPoint == getSharedSecret(recipientPrivKey, ephemeralPubKey)
            sharedSecretHash == sha256(Slice(sharedPoint, 1, 33))
            encryptionKey == importAESKey(sharedSecretHash)
        IN  decryptAES(ciphertext, encryptionKey, iv)

\* unwrapKeyWithSigner: the unwrapped key bytes, or the error thrown
unwrapKeyWithSigner(wrappedKeyHex, signerAddress) ==
    IF ~IsHexString(wrappedKeyHex) THEN
        [ok |-> FALSE, err |-> "invalid BytesLike value"]
    ELSE
    LET wrapped == getBytes(wrappedKeyHex)
        ephemeralPubKey == Slice(wrapped, 0, 33)
        iv == Slice(wrapped, 33, 45)
        ciphertext == SliceFrom(wrapped, 45)
        hash == keccak256(toUtf8Bytes(toLowerCase(signerAddress)))
        hashBytes == getBytes(hash)
        recipientPrivKey == Slice(hashBytes, 0, 32)
    IN  IF Len(ephemeralPubKey) # 33 THEN
            [ok |-> FALSE, err |-> "invalid public key"]
        ELSE
        LET sharedPoint == getSharedSecret(recipientPrivKey, ephemeralPubKey)
            sharedSecretHash == sha256(Slice(sharedPoint, 1, 33))
            encryptionKey == importAESKey(sharedSecretHash)
        IN  decryptAES(ciphertext, encryptionKey, iv)

\* ------------------------------------------------------------------------
\* JSON text of an object whose values are strings and numbers.  An object
\* is the sequence of its <<key, value>> members in insertion order.
\* ------------------------------------------------------------------------

Str(chars) == [type |-> "string", v |-> chars]

Num(n) == [type |-> "number", v |-> n]

Undefined == [type |-> "undefined"]

\* object[key]: the value of the last member with that key
Field(object, key) ==
    IF \E i \in 1..Len(object) : object[i][1] = key
    THEN object[CHOOSE i \in 1..Len(object) :
                    /\ object[i][1] = key
                    /\ \A j \in 1..Len(object) :
                          object[j][1] = key => j <= i][2]
    ELSE Undefined

\* a string literal: quotation mark and backslash are escaped
RECURSIVE Escaped(_)
Escaped(chars) ==
    IF chars = <<>> THEN <<>>
    ELSE (IF Head(chars) = "\"" \/ Head(chars) = "\\"
          THEN <<"\\", Head(chars)>>
          ELSE <<Head(chars)>>) \o Escaped(Tail(chars))

Quoted(chars) == <<"\"">> \o Escaped(chars) \o <<"\"">>

RECURSIVE Decimal(_)
Decimal(n) ==
    IF n < 10 THEN <<HexDigits[n + 1]>>
    ELSE Decimal(n \div 10) \o <<HexDigits[(n % 10) + 1]>>

ValueText(value) ==
    IF value.type = "number" THEN Decimal(value.v) ELSE Quoted(value.v)

RECURSIVE MembersText(_, _)
MembersText(object, i) ==
    IF i > Len(object) THEN <<>>
    ELSE (IF i > 1 THEN <<",">> ELSE <<>>)
         \o Quoted(object[i][1]) \o <<":">> \o ValueText(object[i][2])
         \o MembersText(object, i + 1)

\* JSON.stringify
JSONstringify(object) == <<"{">> \o MembersText(object, 1) \o <<"}">>

SyntaxError == [ok |-> FALSE, err |-> "SyntaxError"]

\* the string literal whose opening quotation mark is before position i
RECURSIVE ScanString(_, _, _)
ScanString(text, i, acc) ==
    IF i > Len(text) THEN SyntaxError
    ELSE IF text[i] = "\"" THEN [ok |-> TRUE, val |-> acc, next |-> i + 1]
    ELSE IF text[i] = "\\" THEN
        IF i + 1 > Len(text) \/ ~(text[i + 1] = "\"" \/ text[i + 1] = "\\")
        THEN SyntaxError
        ELSE ScanString(text, i + 2, Append(acc, text[i + 1]))
    ELSE ScanString(text, i + 1, Append(acc, text[i]))

IsDigit(c) == \E d \in 1..10 : HexDigits[d] = c

\* the number whose digits start at position i
RECURSIVE ScanNumber(_, _, _)
ScanNumber(text, i, acc) ==
    IF i <= Len(text) /\ IsDigit(text[i])
    THEN ScanNumber(text, i + 1, (acc * 10) + HexVal(text[i]))
    ELSE [ok |-> TRUE, val |-> acc, next |-> i]

ScanValue(text, i) ==
    IF i > Len(text) THEN SyntaxError
    ELSE IF text[i] = "\"" THEN
        LET lit == ScanString(text, i + 1, <<>>)
        IN  IF lit.ok
            THEN [ok |-> TRUE, val |-> Str(lit.val), next |-> lit.next]
            ELSE SyntaxError
    ELSE IF IsDigit(text[i]) THEN
        LET num == ScanNumber(text, i, 0)
        IN  [ok |-> TRUE, val |-> Num(num.val), next |-> num.next]
    ELSE SyntaxError

\* the members from position i, the opening quotation mark of a key, on
RECURSIVE ScanMembers(_, _, _)
ScanMembers(text, i, acc) ==
    IF i > Len(text) \/ text[i] # "\"" THEN SyntaxError
    ELSE
    LET k == ScanString(text, i + 1, <<>>)
    IN  IF ~k.ok THEN SyntaxError
        ELSE IF k.next > Len(text) \/ text[k.next] # ":" THEN SyntaxError
        ELSE
        LET v == ScanValue(text, k.next + 1)
        IN  IF ~v.ok THEN SyntaxError
            ELSE IF v.next > Len(text) THEN SyntaxError
            ELSE IF text[v.next] = "}" /\ v.next = Len(text) THEN
                [ok |-> TRUE, val |-> Append(acc, <<k.val, v.val>>)]
            ELSE IF text[v.next] = "," THEN
                ScanMembers(text, v.next + 1,
                            Append(acc, <<k.val, v.val>>))
            ELSE SyntaxError

\* JSON.parse
JSONparse(text) ==
    IF Len(text) < 2 \/ text[1] # "{" THEN SyntaxError
    ELSE IF text = <<"{", "}">> THEN [ok |-> TRUE, val |-> <<>>]
    ELSE ScanMembers(text, 2, <<>>)

\* ------------------------------------------------------------------------
\* File encryption helpers.  A Blob is its bytes and its type; a File has a
\* name as well.
\* ------------------------------------------------------------------------

K_fileName == <<"f", "i", "l", "e", "N", "a", "m", "e">>
K_fileType == <<"f", "i", "l", "e", "T", "y", "p", "e">>
K_fileSize == <<"f", "i", "l", "e", "S", "i", "z", "e">>
K_iv == <<"i", "v">>
K_encryptedAt == <<"e", "n", "c", "r", "y", "p", "t", "e", "d", "A", "t">>

OctetStream ==
    <<"a", "p", "p", "l", "i", "c", "a", "t", "i", "o", "n", "/", "o", "c",
      "t", "e", "t", "-", "s", "t", "r", "e", "a", "m">>

\* the bytes of new Uint32Array([n]).buffer and the number read back from
\* four bytes, on the little-endian platforms browsers run on
Uint32Bytes(n) ==
    <<n % 256, (n \div 256) % 256, (n \div 65536) % 256,
      (n \div 16777216) % 256>>

Uint32Value(bytes) ==
    bytes[1] + (256 * bytes[2]) + (65536 * bytes[3]) + (16777216 * bytes[4])

\* encryptFile with the key generateAESKey drew, the IV encryptAES drew and
\* the ISO timestamp of the call
encryptFile(file, aesKey, iv, now) ==
    LET fileBytes == file.bytes
        enc == encryptAES(fileBytes, aesKey, iv)
        ciphertext == enc.ciphertext
        metadata == << <<K_fileName, Str(file.name)>>,
                       <<K_fileType, Str(file.type)>>,
                       <<K_fileSize, Num(Len(file.bytes))>>,
                       <<K_iv, Str(hexlify(enc.iv))>>,
                       <<K_encryptedAt, Str(now)>> >>
        metadataStr == JSONstringify(metadata)
        metadataBytes == toUtf8Bytes(metadataStr)
        metadataLength == Uint32Bytes(Len(metadataBytes))
        p0 == Zeros(4 + Len(metadataBytes) + Len(ciphertext))
        p1 == SetAt(p0, metadataLength, 0)
        p2 == SetAt(p1, metadataBytes, 4)
        packagedData == SetAt(p2, ciphertext, 4 + Len(metadataBytes))
    IN  [encryptedBlob |-> [bytes |-> packagedData, type |-> OctetStream],
         aesKey |-> aesKey,
         metadata |-> metadata]

decryptFile_CiphertextAtLength(encryptedBlob, aesKey) ==
    LET packagedData == encryptedBlob.bytes
    IN  IF Len(packagedData) < 4 THEN SyntaxError
        ELSE
        LET metadataLength == Uint32Value(Slice(packagedData, 0, 4))
            metadataBytes == Slice(packagedData, 4, 4 + metadataLength)
            ciphertext == SliceFrom(packagedData, metadataLength)
            metadataStr == decodeUtf8(metadataBytes)
            parsed == JSONparse(metadataStr)
        IN  IF ~parsed.ok THEN SyntaxError
            ELSE
            LET metadata == parsed.val
                ivHex == Field(metadata, K_iv)
                typeField == Field(metadata, K_fileType)
                fileType == IF typeField.type = "string" THEN typeField.v
                            ELSE <<>>
            IN  IF ivHex.type # "string" THEN
                    [ok |-> FALSE, err |-> "invalid BytesLike value"]
                ELSE IF ~IsHexString(ivHex.v) THEN
                    [ok |-> FALSE, err |-> "invalid BytesLike value"]
                ELSE
                LET iv == getBytes(ivHex.v)
                    decryptedBytes == decryptAES(ciphertext, aesKey, iv)
                IN  IF ~decryptedBytes.ok THEN decryptedBytes
                    ELSE [ok |-> TRUE,
                          file |-> [bytes |-> decryptedBytes.val,
                                    type |-> fileType],
                          metadata |-> metadata]

\* decryptFile: the decrypted Blob and the metadata, or the error thrown
decryptFile(encryptedBlob, aesKey) ==
    LET packagedData == encryptedBlob.bytes
    IN  IF Len(packagedData) < 4 THEN SyntaxError
        ELSE
        LET metadataLength == Uint32Value(Slice(packagedData, 0, 4))
            metadataBytes == Slice(packagedData, 4, 4 + metadataLength)
            ciphertext == SliceFrom(packagedData, 4 + metadataLength)
            metadataStr == decodeUtf8(metadataBytes)
            parsed == JSONparse(metadataStr)
        IN  IF ~parsed.ok THEN SyntaxError
            ELSE
            LET metadata == parsed.val
                ivHex == Field(metadata, K_iv)
                typeField == Field(metadata, K_fileType)
                fileType == IF typeField.type = "string" THEN typeField.v
                            ELSE <<>>
            IN  IF ivHex.type # "string" THEN
                    [ok |-> FALSE, err |-> "invalid BytesLike value"]
                ELSE IF ~IsHexString(ivHex.v) THEN
                    [ok |-> FALSE, err |-> "invalid BytesLike value"]
                ELSE
                LET iv == getBytes(ivHex.v)
                    decryptedBytes == decryptAES(ciphertext, aesKey, iv)
                IN  IF ~decryptedBytes.ok THEN decryptedBytes
                    ELSE [ok |-> TRUE,
                          file |-> [bytes |-> decryptedBytes.val,
                                    type |-> fileType],
                          metadata |-> metadata]

\* ------------------------------------------------------------------------
\* A browser session that calls the helpers
\* ------------------------------------------------------------------------

\* raw AES-256 keys that generateAESKey draws
AesKeys == {[i \in 1..32 |-> 17], [i \in 1..32 |-> (7 * i) % 256]}

\* private keys that randomPrivateKey draws
EphemeralKeys ==
    {[i \in 1..32 |-> 1], [i \in 1..32 |-> i], [i \in 1..32 |-> 255 - i]}

\* IVs that getRandomValues draws
IVs == {[i \in 1..12 |-> 0], [i \in 1..12 |-> (16 * i) + 3]}

\* addresses as the wallet and the checksum encoding spell them: two
\* accounts, in lower, mixed and upper case
WalletAddresses ==
    {<<"0", "x", "a", "b", "1", "2">>, <<"0", "x", "A", "b", "1", "2">>,
     <<"0", "x", "A", "B", "1", "2">>, <<"0", "x", "c", "d", "3", "4">>,
     <<"0", "x", "C", "d", "3", "4">>}

FileBytes == {0, 255}

Contents ==
    UNION {[1..n -> FileBytes] : n \in 0..MaxFileLen}

FileNames == {<<"a", ".", "t", "x", "t">>, <<"x", "\"", "y", "\\", "z">>}

FileTypes == {<<>>, <<"t", "e", "x", "t", "/", "p", "l", "a", "i", "n">>}

Files == [bytes : Contents, name : FileNames, type : FileTypes]

Timestamps ==
    {<<"2", "0", "2", "5", "-", "0", "1", "-", "0", "2", "T", "0", "3", ":",
       "0", "4", ":", "0", "5", ".", "0", "0", "6", "Z">>}

contract ==
    <<records, hasRecord, accessPermissions, encryptedSymKeys, log, lastCall>>

WrapKeyForRecipient(aesKeyRaw, recipientAddress, ephemeralPrivKey, iv) ==
    /\ client.pc = "idle"
    /\ client' = [pc |-> "wrapped",
                  aesKeyRaw |-> aesKeyRaw,
                  recipientAddress |-> recipientAddress,
                  ephemeralPrivKey |-> ephemeralPrivKey,
                  iv |-> iv,
                  wrappedKeyHex |->
                      wrapKeyForRecipient(aesKeyRaw, recipientAddress,
                                          ephemeralPrivKey, iv)]
    /\ UNCHANGED <<contract, scenario>>

UnwrapKeyWithSigner(signerAddress) ==
    /\ client.pc = "wrapped"
    /\ client' = [pc |-> "unwrapped",
                  aesKeyRaw |-> client.aesKeyRaw,
                  recipientAddress |-> client.recipientAddress,
                  ephemeralPrivKey |-> client.ephemeralPrivKey,
                  iv |-> client.iv,
                  wrappedKeyHex |-> client.wrappedKeyHex,
                  signerAddress |-> signerAddress,
                  unwrapped |->
                      unwrapKeyWithSigner(client.wrappedKeyHex,
                                          signerAddress)]
    /\ UNCHANGED <<contract, scenario>>

EncryptFile(file, aesKeyRaw, iv, now) ==
    /\ client.pc = "idle"
    /\ client' = [pc |-> "encrypted",
                  file |-> file,
                  iv |-> iv,
                  encrypted |->
                      encryptFile(file, importAESKey(aesKeyRaw), iv, now)]
    /\ UNCHANGED <<contract, scenario>>

DecryptFile(aesKeyRaw) ==
    /\ client.pc = "encrypted"
    /\ client' = [pc |-> "decrypted",
                  file |-> client.file,
                  iv |-> client.iv,
                  encrypted |-> client.encrypted,
                  aesKey |-> importAESKey(aesKeyRaw),
                  decrypted |->
                      decryptFile(client.encrypted.encryptedBlob,
                                  importAESKey(aesKeyRaw))]
    /\ UNCHANGED <<contract, scenario>>

CryptoNext ==
    \/ \E s \in AesKeys, a \in WalletAddresses, e \in EphemeralKeys,
          iv \in IVs :
           WrapKeyForRecipient(s, a, e, iv)
    \/ \E a \in WalletAddresses : UnwrapKeyWithSigner(a)
    \/ \E f \in Files, k \in AesKeys, iv \in IVs, now \in Timestamps :
           EncryptFile(f, k, iv, now)
    \/ \E k \in AesKeys : DecryptFile(k)

CryptoSpec == Init /\ [][CryptoNext]_vars

\* ------------------------------------------------------------------------
\* The patient's Upload page with its grant dialog (Upload.jsx,
\* GrantModal.jsx): one browser session of one patient, the pinning service
\* it uploads to and the registry contract it sends transactions to
\* ------------------------------------------------------------------------

\* a state hook or storage slot that holds null, or a value
Null == [isNull |-> TRUE]

Some(v) == [isNull |-> FALSE, v |-> v]

\* the account connected to the page
PatientAccount == 1

\* the address of each account as ethers.getAddress spells it
WalletOf ==
    [a \in Accounts |->
        CASE a = 1 -> <<"0", "x", "A", "b", "1", "2">>
          [] a = 2 -> <<"0", "x", "C", "d", "3", "4">>
          [] a = 3 -> <<"0", "x", "E", "f", "5", "6">>]

\* files the patient selects
PageFiles ==
    {[bytes |-> <<0>>, name |-> <<"a", ".", "t", "x", "t">>,
      type |-> <<"t", "e", "x", "t", "/", "p", "l", "a", "i", "n">>],
     [bytes |-> <<255, 0>>, name |-> <<"a", ".", "t", "x", "t">>,
      type |-> <<>>]}

\* the IVs and the ephemeral private key drawn during a session
PageIVs == {[i \in 1..12 |-> 16 * i + 3]}

PageEphemeralKeys == {[i \in 1..32 |-> i]}

\* content identifiers the pinning service returns
PinnedCIDs == CIDs \ {""}

\* how far handleUpload gets: uploadToIPFS throws, the uploadRecord
\* transaction is rejected, or the handler runs to its end
UploadOutcomes == {"ipfsError", "txError", "stored"}

PageInit ==
    /\ InitStorage
    /\ scenario = NoScenario
    /\ client = [pc |-> "page",
                 file |-> Null,
                 uploadedCID |-> Null,
                 aesKey |-> Null,
                 localStorage |-> [c \in PinnedCIDs |-> Null],
                 pinned |-> [c \in PinnedCIDs |-> Null],
                 generated |-> {}]

HandleFileChange(selectedFile) ==
    /\ client.pc = "page"
    /\ client' = [client EXCEPT !.file = Some(selectedFile),
                                !.uploadedCID = Null]
    /\ UNCHANGED <<contract, scenario>>

\* handleUpload with the key generateAESKey drew (one it never drew
\* before), the IV, the time, the content identifier the pinning service
\* answered with and the point the handler got to
HandleUpload(aesKeyRaw, iv, now, cid, outcome) ==
    /\ client.pc = "page"
    /\ ~client.file.isNull
    /\ aesKeyRaw \notin client.generated
    /\ LET enc == encryptFile(client.file.v, importAESKey(aesKeyRaw), iv, now)
           generatedKey == enc.aesKey
           c1 == [client EXCEPT !.aesKey = Some(generatedKey),
                                !.generated = @ \cup {aesKeyRaw}]
           c2 == [c1 EXCEPT !.pinned[cid] = Some(enc.encryptedBlob)]
           res == uploadRecord(World, PatientAccount, cid)
           wrappedKeyHex == hexlify(exportAESKeyRaw(generatedKey))
           c3 == [c2 EXCEPT !.localStorage[cid] = Some(wrappedKeyHex),
                            !.uploadedCID = Some(cid)]
       IN  \/ /\ outcome = "ipfsError"
              /\ client' = c1
              /\ UNCHANGED contract
           \/ /\ outcome # "ipfsError"
              \* a content identifier names one content
              /\ IF client.pinned[cid].isNull THEN TRUE
                 ELSE client.pinned[cid].v = enc.encryptedBlob
              /\ \/ /\ outcome = "txError"
                    /\ client' = c2
                    /\ UNCHANGED contract
                 \/ /\ outcome = "stored"
                    /\ Commit(res, Call("uploadRecord", res))
                    /\ res.ok
                    /\ WithinLog
                    /\ client' = c3
    /\ UNCHANGED scenario

\* handleGrant of the dialog, which the page shows once uploadedCID and
\* aesKey are set, for the address typed in and with the ephemeral key and
\* the IV wrapKeyForRecipient drew
HandleGrant(grantee, ephemeralPrivKey, iv) ==
    /\ client.pc = "page"
    /\ ~client.uploadedCID.isNull /\ ~client.aesKey.isNull
    /\ LET account == toLowerCase(WalletOf[PatientAccount])
           checksumAddress == WalletOf[grantee]
       IN  /\ toLowerCase(checksumAddress) # toLowerCase(account)
           /\ LET aesKeyRaw == exportAESKeyRaw(client.aesKey.v)
                  wrappedKeyHex ==
                      wrapKeyForRecipient(aesKeyRaw, checksumAddress,
                                          ephemeralPrivKey, iv)
                  wrappedKeyBytes == getBytes(wrappedKeyHex)
                  res == grantAccess(World, PatientAccount, grantee,
                                     wrappedKeyBytes)
              IN  /\ Commit(res, Call("grantAccess", res))
                  /\ res.ok
                  /\ WithinLog
    /\ UNCHANGED <<scenario, client>>

PageNext ==
    \/ \E f \in PageFiles : HandleFileChange(f)
    \/ \E k \in AesKeys, iv \in PageIVs, now \in Timestamps,
          c \in PinnedCIDs, outcome \in UploadOutcomes :
           HandleUpload(k, iv, now, c, outcome)
    \/ \E g \in Accounts, e \in PageEphemeralKeys, iv \in PageIVs :
           HandleGrant(g, e, iv)

PageSpec == PageInit /\ [][PageNext]_vars

\* ------------------------------------------------------------------------
\* withRetry of the IPFS utilities (ipfs.js): one call of withRetry(fn,
\* {maxRetries}), with fn's outcome at every invocation chosen by the
\* network
\* ------------------------------------------------------------------------

\* largest maxRetries a caller passes
MaxRetriesBound == 3

NoCode == "<undefined>"

\* what fn resolves to
Fulfilled(value) == [ok |-> TRUE, value |-> value]

\* what fn rejects with
Rejected(name, code) == [ok |-> FALSE, name |-> name, code |-> code]

\* the outcomes of fn: the response, the errors fetchWithTimeout throws, the
\* abort of a raw fetch, an invalid content identifier and a TypeError
FnOutcomes ==
    {Fulfilled("response"),
     Rejected("IPFSError", "TIMEOUT"),
     Rejected("IPFSError", "NETWORK_ERROR"),
     Rejected("IPFSError", "HTTP_500"),
     Rejected("AbortError", NoCode),
     Rejected("IPFSError", "INVALID_CID"),
     Rejected("TypeError", NoCode)}

\* let lastError; before the first catch
NoError == [ok |-> FALSE, name |-> "<undefined>", code |-> NoCode]

breaks_AbortOnly(error) == error.name = "AbortError"

\* the errors after which the catch block leaves the loop
breaks(error) == error.name = "AbortError" \/ error.code = "INVALID_CID"

RetryInit ==
    /\ InitStorage
    /\ scenario = NoScenario
    /\ \E maxRetries \in 1..MaxRetriesBound :
          client = [pc |-> "while",
                    maxRetries |-> maxRetries,
                    attempt |-> 0,
                    lastError |-> NoError,
                    invoked |-> <<>>]

\* one iteration of the loop whose condition holds: fn is invoked; its
\* value is returned, or its error is caught, after which the loop is left,
\* the delay is awaited or the condition is tested again
CallFn(outcome) ==
    /\ client.pc = "while"
    /\ client.attempt < client.maxRetries
    /\ LET c1 == [client EXCEPT !.invoked = Append(@, outcome)]
           attempt == client.attempt + 1
           c2 == [c1 EXCEPT !.lastError = outcome, !.attempt = attempt]
       IN  client' =
               IF outcome.ok THEN
                   [c1 EXCEPT !.pc = "returned"] @@ [value |-> outcome.value]
               ELSE IF breaks(outcome) THEN
                   [c2 EXCEPT !.pc = "thrown"] @@ [error |-> outcome]
               ELSE IF attempt < client.maxRetries THEN
                   [c2 EXCEPT !.pc = "delay"]
               ELSE c2
    /\ UNCHANGED <<contract, scenario>>

\* the timer of the backoff delay fires
DelayElapsed ==
    /\ client.pc = "delay"
    /\ client' = [client EXCEPT !.pc = "while"]
    /\ UNCHANGED <<contract, scenario>>

\* the loop condition fails: throw lastError
ThrowLastError ==
    /\ client.pc = "while"
    /\ ~(client.attempt < client.maxRetries)
    /\ client' = [client EXCEPT !.pc = "thrown"]
                     @@ [error |-> client.lastError]
    /\ UNCHANGED <<contract, scenario>>

RetryNext ==
    \/ \E outcome \in FnOutcomes : CallFn(outcome)
    \/ DelayElapsed
    \/ ThrowLastError

\* fn settles and the timer fires, so a step that can be taken is taken
RetrySpec == RetryInit /\ [][RetryNext]_vars /\ WF_vars(RetryNext)

\* ------------------------------------------------------------------------
\* Vocabulary of the properties
\* ------------------------------------------------------------------------

ErrNoRecord == "MedVault: patient has no record"
ErrDenied == "MedVault: access denied"
ErrEmptyCID == "MedVault: CID cannot be empty"
ErrInvalidGrantee == "MedVault: invalid grantee address"
ErrEmptyKey == "MedVault: wrapped key cannot be empty"
ErrNoAccess == "MedVault: no access permission"
ErrNotPatient == "MedVault: caller is not the patient"
ErrLengthMismatch == "MedVault: array length mismatch"
ErrEmptyArrays == "MedVault: empty input arrays"
ErrEmptyArray == "MedVault: empty input array"

IsPrefix(s, t) == Len(s) <= Len(t) /\ SubSeq(t, 1, Len(s)) = s

LastEvent == log[Len(log)]

\* every transaction a sender can submit, as function name plus arguments
AllCalls ==
    [op : {"uploadRecord"}, sender : Callers, cid : CIDs]
    \cup [op : {"grantAccess"}, sender : Callers, grantee : Addresses,
          wrappedKey : Keys]
    \cup [op : {"revokeAccess"}, sender : Callers, grantee : Addresses]
    \cup [op : {"getRecord"}, sender : Callers, patient : Addresses]
    \cup {[op |-> "batchGrantAccess", sender |-> s, grantees |-> p[1],
           wrappedKeys |-> p[2]] : s \in Callers, p \in BatchInputs}
    \cup [op : {"batchRevokeAccess"}, sender : Callers,
          grantees : BatchGrantees]

\* the outcome of transaction c submitted in world w
Exec(w, c) ==
    CASE c.op = "uploadRecord" -> uploadRecord(w, c.sender, c.cid)
      [] c.op = "grantAccess" ->
             grantAccess(w, c.sender, c.grantee, c.wrappedKey)
      [] c.op = "revokeAccess" -> revokeAccess(w, c.sender, c.grantee)
      [] c.op = "getRecord" -> getRecord(w, c.sender, c.patient)
      [] c.op = "batchGrantAccess" ->
             batchGrantAccess(w, c.sender, c.grantees, c.wrappedKeys)
      [] c.op = "batchRevokeAccess" ->
             batchRevokeAccess(w, c.sender, c.grantees)

\* c is a grant submitted by owner o that names recipient r
GrantsTo(c, o, r) ==
    /\ c.sender = o
    /\ \/ c.op = "grantAccess" /\ c.grantee = r
       \/ /\ c.op = "batchGrantAccess"
          /\ \E i \in 1..Len(c.grantees) : c.grantees[i] = r

\* the positions of the RecordUploaded events of patient p in the log
UploadsOf(p) ==
    {i \in 1..Len(log) : log[i].event = "RecordUploaded" /\ log[i].patient = p}

\* the content identifier of the most recent upload of p in the log
LastUploaded(p) ==
    log[CHOOSE i \in UploadsOf(p) : \A j \in UploadsOf(p) : j <= i].cid

\* ------------------------------------------------------------------------
\* C1  Audit completeness: every getRecord call on a patient with a record,
\* authorized or denied, leaves exactly one AccessAttempt event at the end
\* of the log, with success equal to the authorization decision.  Checked on
\* the three reads of the complete flow, the last of which is denied.
\* ------------------------------------------------------------------------
C1_AuditCompleteness ==
    (lastCall.op = "getRecord" /\ (lastCall.ok \/ lastCall.err = ErrDenied))
        => /\ lastCall.emitted = 1
           /\ LastEvent.event = "AccessAttempt"
           /\ LastEvent.success = lastCall.ok

\* ------------------------------------------------------------------------
\* C2  Authorization gate: for every accessor a and every owner o with a
\* record, getRecord by a on o returns o's current content identifier iff
\* a = o or (o, a) is granted; otherwise it fails with access denied and
\* returns nothing.  Every read that went through was such a read.
\* ------------------------------------------------------------------------
C2_AuthorizationGate ==
    /\ \A a \in Callers, o \in Addresses :
          hasRecord[o] =>
              LET r == getRecord(World, a, o)
              IN  IF a = o \/ accessPermissions[o][a]
                  THEN r.ok /\ r.ret = records[o]
                  ELSE ~r.ok /\ r.err = ErrDenied /\ r.ret = NoValue
    /\ (lastCall.op = "getRecord" /\ lastCall.ok) =>
          /\ LastEvent.event = "AccessAttempt"
          /\ \/ LastEvent.accessor = LastEvent.patient
             \/ accessPermissions[LastEvent.patient][LastEvent.accessor]
          /\ hasRecord[LastEvent.patient]
          /\ lastCall.ret = records[LastEvent.patient]

\* a granted recipient, not the owner, has just read the owner's record
C2_Witness ==
    /\ lastCall.op = "getRecord" /\ lastCall.ok
    /\ LastEvent.accessor # LastEvent.patient
    /\ accessPermissions[LastEvent.patient][LastEvent.accessor]
    /\ lastCall.ret = records[LastEvent.patient]

\* ------------------------------------------------------------------------
\* C3  Access monotonicity: right after a successful grantAccess(o, r, k)
\* checkAccess(o, r) is true; right after a following successful
\* revokeAccess(o, r) it is false (r # o); and no transaction turns
\* checkAccess(o, r) from false to true except a grant by o that names r.
\* ------------------------------------------------------------------------
C3_AccessMonotonicity ==
    /\ \A o \in Callers, r \in Addresses, k \in Keys :
          LET g == grantAccess(World, o, r, k)
          IN  g.ok =>
                /\ checkAccess(g.w, o, r)
                /\ LET v == revokeAccess(g.w, o, r)
                   IN  v.ok /\ (r # o => ~checkAccess(v.w, o, r))
    /\ \A c \in AllCalls :
          LET w2 == Exec(World, c).w
          IN  \/ w2.accessPermissions = accessPermissions
              \/ \A o \in Addresses, r \in Addresses :
                    (~checkAccess(World, o, r) /\ checkAccess(w2, o, r))
                        => GrantsTo(c, o, r)
    /\ (lastCall.op = "revokeAccess" /\ lastCall.emitted = 1) =>
          (LastEvent.patient # LastEvent.grantee
              => ~checkAccess(World, LastEvent.patient, LastEvent.grantee))
    /\ (lastCall.op = "grantAccess" /\ lastCall.ok) =>
          checkAccess(World, LastEvent.patient, LastEvent.grantee)

\* a revoke of a granted recipient has just run
C3_Witness ==
    /\ lastCall.op = "revokeAccess" /\ lastCall.ok /\ lastCall.emitted = 1
    /\ LastEvent = AccessUpdated(LastEvent.patient, LastEvent.grantee, FALSE)
    /\ LastEvent.patient # LastEvent.grantee
    /\ ~checkAccess(World, LastEvent.patient, LastEvent.grantee)
    /\ \E i \in 1..Len(log) :
          log[i] = AccessUpdated(LastEvent.patient, LastEvent.grantee, TRUE)

\* ------------------------------------------------------------------------
\* C4  Idempotent revoke: revokeAccess(o, r) called twice in a row on a
\* granted pair appends exactly one AccessUpdated(granted = false) event;
\* the second call succeeds, changes no state and appends no event.
\* ------------------------------------------------------------------------
C4_IdempotentRevoke ==
    \A o \in Callers, r \in Addresses :
        (hasRecord[o] /\ accessPermissions[o][r]) =>
            LET v1 == revokeAccess(World, o, r)
                v2 == revokeAccess(v1.w, o, r)
            IN  /\ v1.ok
                /\ v1.w.log = Append(log, AccessUpdated(o, r, FALSE))
                /\ v2.ok
                /\ v2.w = v1.w

\* a revoke that found the pair already revoked has just run: the last
\* event of the log is still the event of the first revoke
C4_Witness ==
    /\ lastCall.op = "revokeAccess" /\ lastCall.ok /\ lastCall.emitted = 0
    /\ Len(log) > 0
    /\ LastEvent.event = "AccessUpdated" /\ LastEvent.granted = FALSE

\* ------------------------------------------------------------------------
\* C5  Permission invariant: for every (owner, recipient) pair the stored
\* wrapped key is non-empty iff the permission flag is set.
\* ------------------------------------------------------------------------
C5_PermissionInvariant ==
    \A o \in Addresses, r \in Addresses :
        (Len(encryptedSymKeys[o][r]) > 0) <=> accessPermissions[o][r]

\* a pair that was granted has been revoked: flag and key are both cleared
C5_Witness ==
    \E i \in 1..Len(log), j \in 1..Len(log) :
        /\ i < j
        /\ log[i].event = "AccessUpdated" /\ log[i].granted
        /\ log[j] = AccessUpdated(log[i].patient, log[i].grantee, FALSE)
        /\ ~accessPermissions[log[i].patient][log[i].grantee]
        /\ encryptedSymKeys[log[i].patient][log[i].grantee] = <<>>

\* ------------------------------------------------------------------------
\* C6  Scenario ordering: upload(P, ref); getRecord by P; grant(P, M, k);
\* getRecord by M; revoke(P, M); getRecord by M yields ref, ref and access
\* denied, and the log is then exactly the six events Uploaded,
\* AccessAttempt(P, P, true), AccessUpdated(P, M, true),
\* AccessAttempt(M, P, true), AccessUpdated(P, M, false),
\* AccessAttempt(M, P, false).
\* ------------------------------------------------------------------------
C6_ScenarioOrdering ==
    /\ scenario.pc = 2 => lastCall.ok /\ lastCall.ret = scenario.ref
    /\ scenario.pc = 4 => lastCall.ok /\ lastCall.ret = scenario.ref
    /\ scenario.pc = 6 =>
          /\ ~lastCall.ok /\ lastCall.err = ErrDenied
          /\ log = << RecordUploaded(scenario.P, scenario.ref),
                      AccessAttempt(scenario.P, scenario.P, scenario.ref, TRUE),
                      AccessUpdated(scenario.P, scenario.M, TRUE),
                      AccessAttempt(scenario.M, scenario.P, scenario.ref, TRUE),
                      AccessUpdated(scenario.P, scenario.M, FALSE),
                      AccessAttempt(scenario.M, scenario.P, "", FALSE) >>

C8_OnlyOwnerMutates ==
    \A c \in AllCalls :
        LET w2 == Exec(World, c).w
        IN  \A o \in Addresses \ {c.sender} :
                /\ w2.records[o] = records[o]
                /\ w2.hasRecord[o] = hasRecord[o]
                /\ w2.accessPermissions[o] = accessPermissions[o]
                /\ w2.encryptedSymKeys[o] = encryptedSymKeys[o]

\* a grant has just run while another owner holds a record
C8_Witness ==
    /\ lastCall.op \in {"grantAccess", "batchGrantAccess"} /\ lastCall.ok
    /\ accessPermissions[LastEvent.patient][LastEvent.grantee]
    /\ \E o \in Addresses :
          /\ o # LastEvent.patient
          /\ o # LastEvent.grantee
          /\ hasRecord[o]
          /\ \A r \in Addresses : ~accessPermissions[o][r]

\* ------------------------------------------------------------------------
\* C9  uploadRecord with an empty content identifier reverts with the
\* empty-CID error for every sender and leaves storage and log unchanged.
\* ------------------------------------------------------------------------
C9_EmptyUploadFails ==
    /\ \A s \in Callers :
          LET u == uploadRecord(World, s, "")
          IN  ~u.ok /\ u.err = ErrEmptyCID /\ u.w = World
    /\ \A i \in 1..Len(log) :
          log[i].event = "RecordUploaded" => log[i].cid # ""
    /\ \A p \in Addresses : hasRecord[p] => records[p] # ""

\* a sender who holds a record and has events in the log submits an empty
\* upload: it reverts and the record stays
C9_Witness ==
    \E s \in Callers :
        /\ hasRecord[s] /\ records[s] # ""
        /\ Len(log) >= 2
        /\ LET u == uploadRecord(World, s, "")
           IN  ~u.ok /\ u.w.records[s] = records[s] /\ u.w.log = log

\* ------------------------------------------------------------------------
\* C10  Overwrite semantics: every successful upload appends one
\* RecordUploaded event and makes its content identifier the one that
\* getRecord and getRecordCID return to every authorized reader; the stored
\* identifier of an owner is always that of the owner's most recent upload,
\* and no upload touches another owner's record.
\* ------------------------------------------------------------------------
C10_OverwriteSemantics ==
    /\ \A s \in Callers, c \in CIDs \ {""} :
          LET u == uploadRecord(World, s, c)
          IN  /\ u.ok
              /\ u.w.log = Append(log, RecordUploaded(s, c))
              /\ getRecordCID(u.w, s, s).ret = c
              /\ \A a \in Callers :
                    checkAccess(u.w, s, a) => getRecord(u.w, a, s).ret = c
              /\ \A p \in Addresses \ {s} :
                    u.w.records[p] = records[p]
    /\ \A p \in Addresses :
          /\ hasRecord[p] <=> UploadsOf(p) # {}
          /\ hasRecord[p] => records[p] = LastUploaded(p)

\* an owner has uploaded twice, with different identifiers, and a granted
\* recipient as well as the owner are handed the newer one
C10_Witness ==
    /\ lastCall.op = "uploadRecord" /\ lastCall.ok
    /\ \E i \in UploadsOf(LastEvent.patient) :
          log[i].cid # LastEvent.cid
    /\ records[LastEvent.patient] = LastEvent.cid
    /\ getRecord(World, LastEvent.patient, LastEvent.patient).ret
          = LastEvent.cid
    /\ \E a \in Callers \ {LastEvent.patient} :
          /\ accessPermissions[LastEvent.patient][a]
          /\ getRecord(World, a, LastEvent.patient).ret = LastEvent.cid

\* ------------------------------------------------------------------------
\* C11  A record is never deleted: no transaction takes hasRecord of an
\* address from true to false, and whenever hasRecord holds for an address
\* its stored content identifier is not empty.
\* ------------------------------------------------------------------------
C11_RecordNeverDeleted ==
    /\ \A p \in Addresses : hasRecord[p] => records[p] # ""
    /\ \A c \in AllCalls :
          LET w2 == Exec(World, c).w
          IN  \/ w2.hasRecord = hasRecord
              \/ \A p \in Addresses : hasRecord[p] => w2.hasRecord[p]

\* an owner uploaded, granted and then revoked, and the record is still
\* there, with the identifier of the upload
C11_Witness ==
    /\ lastCall.op = "revokeAccess" /\ lastCall.emitted = 1
    /\ hasRecord[LastEvent.patient]
    /\ records[LastEvent.patient] # ""
    /\ records[LastEvent.patient] = LastUploaded(LastEvent.patient)

\* ------------------------------------------------------------------------
\* C12  grantAccess and revokeAccess need a record of the caller: sent by
\* an address that has not uploaded, each reverts with the
\* patient-has-no-record error, whatever the recipient and key, and leaves
\* every permission flag, every wrapped key and the log as they were.
\* ------------------------------------------------------------------------
C12_GrantRevokeNeedRecord ==
    \A s \in Callers :
        ~hasRecord[s] =>
            /\ \A g \in Addresses, k \in Keys :
                  LET r == grantAccess(World, s, g, k)
                  IN  ~r.ok /\ r.err = ErrNoRecord /\ r.w = World
            /\ \A g \in Addresses :
                  LET r == revokeAccess(World, s, g)
                  IN  ~r.ok /\ r.err = ErrNoRecord /\ r.w = World

\* an address without a record, itself a granted recipient of an owner,
\* tries to grant to and to revoke from that owner: both calls revert
C12_Witness ==
    \E s \in Callers, o \in Callers, k \in Keys \ {<<>>} :
        /\ ~hasRecord[s]
        /\ hasRecord[o] /\ accessPermissions[o][s]
        /\ ~grantAccess(World, s, o, k).ok
        /\ grantAccess(World, s, o, k).err = ErrNoRecord
        /\ ~revokeAccess(World, s, o).ok
        /\ revokeAccess(World, s, o).err = ErrNoRecord

\* ------------------------------------------------------------------------
\* C13  grantAccess validates its inputs: sent by an owner of a record, a
\* grant to the zero address reverts with the invalid-grantee error
\* whatever the key, and a grant of an empty wrapped key to a non-zero
\* recipient reverts with the empty-key error; both leave every permission
\* flag, every wrapped key and the log as they were.
\* ------------------------------------------------------------------------
C13_GrantInputValidation ==
    \A s \in Callers :
        hasRecord[s] =>
            /\ \A k \in Keys :
                  LET r == grantAccess(World, s, NullAddr, k)
                  IN  ~r.ok /\ r.err = ErrInvalidGrantee /\ r.w = World
            /\ \A g \in Addresses \ {NullAddr} :
                  LET r == grantAccess(World, s, g, <<>>)
                  IN  ~r.ok /\ r.err = ErrEmptyKey /\ r.w = World

\* an owner who has already granted a recipient a key sends a grant to the
\* zero address and a grant of an empty key to that recipient: the first
\* reverts for the grantee, the second for the key, and the stored key stays
C13_Witness ==
    \E s \in Callers, g \in Addresses \ {NullAddr}, k \in Keys \ {<<>>} :
        /\ hasRecord[s]
        /\ accessPermissions[s][g] /\ encryptedSymKeys[s][g] = k
        /\ grantAccess(World, s, NullAddr, k).err = ErrInvalidGrantee
        /\ grantAccess(World, s, g, <<>>).err = ErrEmptyKey
        /\ grantAccess(World, s, g, <<>>).w.encryptedSymKeys[s][g] = k

\* the wrapped key that grant c passes for recipient r; in a batch that
\* lists r more than once, the one of the last element naming r
KeyPassed(c, r) ==
    IF c.op = "grantAccess" THEN c.wrappedKey
    ELSE LET last == CHOOSE i \in 1..Len(c.grantees) :
                        /\ c.grantees[i] = r
                        /\ \A j \in 1..Len(c.grantees) :
                              c.grantees[j] = r => j <= i
         IN  c.wrappedKeys[last]

\* after every returning transaction, getWrappedKey hands a granted
\* accessor the key of that transaction's grant to the accessor if it made
\* one, and otherwise the key it handed out before the transaction
ReturnsLatestGrantedKey ==
    \A c \in AllCalls :
        LET res == Exec(World, c)
            w2 == res.w
        IN  \/ ~res.ok
            \/ w2.encryptedSymKeys = encryptedSymKeys
            \/ \A o \in Callers, a \in Accounts :
                   w2.accessPermissions[o][a] =>
                       getWrappedKey(w2, a, o).ret =
                           IF GrantsTo(c, o, a) THEN KeyPassed(c, a)
                           ELSE getWrappedKey(World, a, o).ret

\* ------------------------------------------------------------------------
\* C14 (as stated)  getWrappedKey(owner) called by accessor a returns the
\* key of the most recent grant for (owner, a) when owner has a record and
\* the pair is granted, and in every other state reverts with the
\* no-access error and returns nothing.
\* ------------------------------------------------------------------------
C14_WrappedKeyGateAsStated ==
    /\ \A o \in Addresses, a \in Accounts :
          LET r == getWrappedKey(World, a, o)
          IN  IF hasRecord[o] /\ accessPermissions[o][a]
              THEN r.ok /\ r.ret = encryptedSymKeys[o][a] /\ r.ret # <<>>
              ELSE ~r.ok /\ r.ret = NoValue /\ r.err = ErrNoAccess
    /\ ReturnsLatestGrantedKey

\* ------------------------------------------------------------------------
\* C14  getWrappedKey(owner) called by accessor a returns the key of the
\* most recent grant for (owner, a) when owner has a record and the pair is
\* granted; in every other state it reverts and returns nothing, with the
\* patient-has-no-record error when owner has no record and with the
\* no-access error when owner has a record and the pair is not granted.
\* ------------------------------------------------------------------------
C14_WrappedKeyGate ==
    /\ \A o \in Addresses, a \in Accounts :
          LET r == getWrappedKey(World, a, o)
          IN  IF hasRecord[o] /\ accessPermissions[o][a]
              THEN r.ok /\ r.ret = encryptedSymKeys[o][a] /\ r.ret # <<>>
              ELSE /\ ~r.ok /\ r.ret = NoValue
                   /\ r.err = IF hasRecord[o] THEN ErrNoAccess
                              ELSE ErrNoRecord
    /\ ReturnsLatestGrantedKey

\* an owner granted a recipient twice, the second time with another key,
\* and the recipient is handed the second key; the same recipient asks for
\* the key of an address without a record and for the key of the owner as
\* an accessor who is not granted, and is refused with the two errors
C14_Witness ==
    /\ lastCall.op = "grantAccess"
    /\ LET o == LastEvent.patient
           a == LastEvent.grantee
       IN  /\ \E i \in 1..(Len(log) - 1) :
                  log[i] = AccessUpdated(o, a, TRUE)
           /\ \E k \in Keys \ {<<>>} :
                  /\ grantAccess(World, o, a, k).w.encryptedSymKeys[o][a]
                        # encryptedSymKeys[o][a]
                  /\ getWrappedKey(grantAccess(World, o, a, k).w, a, o).ret
                        = k
           /\ getWrappedKey(World, a, o).ok
           /\ getWrappedKey(World, a, o).ret = encryptedSymKeys[o][a]
           /\ \E p \in Callers :
                  /\ ~hasRecord[p]
                  /\ getWrappedKey(World, a, p).err = ErrNoRecord
           /\ \E b \in Accounts :
                  /\ ~accessPermissions[o][b]
                  /\ getWrappedKey(World, b, o).err = ErrNoAccess

\* ------------------------------------------------------------------------
\* C15  The read functions are pure: getWrappedKey and getRecordCID leave
\* records, flags, keys and log as they were whether they return or revert,
\* and checkAccess yields a boolean and nothing else; getRecord is the only
\* read that touches the log: it writes no storage, appends one
\* AccessAttempt when it returns and nothing when it reverts.
\* ------------------------------------------------------------------------
C15_ReadsArePure ==
    \A a \in Accounts, o \in Addresses :
        /\ getWrappedKey(World, a, o).w = World
        /\ getRecordCID(World, a, o).w = World
        /\ checkAccess(World, o, a) \in BOOLEAN
        /\ LET r == getRecord(World, a, o)
           IN  /\ r.w = [World EXCEPT !.log = r.w.log]
               /\ r.ok => Len(r.w.log) = Len(log) + 1
               /\ r.ok => r.w.log[Len(r.w.log)].event = "AccessAttempt"
               /\ ~r.ok => r.w.log = log

\* with a granted pair in storage, the recipient's getWrappedKey and the
\* owner's getRecordCID return and a stranger's revert, all without a
\* trace, while the recipient's getRecord appends its audit entry
C15_Witness ==
    \E o \in Callers, a \in Accounts, x \in Accounts :
        /\ a # o /\ x # o
        /\ accessPermissions[o][a]
        /\ ~accessPermissions[o][x]
        /\ Len(log) >= 2
        /\ getWrappedKey(World, a, o).ok
        /\ getWrappedKey(World, a, o).w.log = log
        /\ ~getWrappedKey(World, x, o).ok
        /\ getRecordCID(World, o, o).ok
        /\ getRecordCID(World, o, o).w.log = log
        /\ ~getRecordCID(World, x, o).ok
        /\ checkAccess(World, o, a) /\ ~checkAccess(World, o, x)
        /\ Len(getRecord(World, a, o).w.log) = Len(log) + 1

\* ------------------------------------------------------------------------
\* C16  getRecordCID(patient) is for the owner only: it returns the stored
\* content identifier exactly when the caller is patient and patient has a
\* record; every other caller, a granted recipient included, is refused
\* with the caller-is-not-the-patient error, and nothing is returned.
\* ------------------------------------------------------------------------
C16_OwnerOnlyCID ==
    \A a \in Accounts, o \in Addresses :
        LET r == getRecordCID(World, a, o)
        IN  /\ r.ok <=> (a = o /\ hasRecord[o])
            /\ r.ok => r.ret = records[o] /\ r.ret # ""
            /\ ~r.ok => r.ret = NoValue
            /\ a # o => r.err = ErrNotPatient

\* a granted recipient, to whom getRecord returns the identifier, is
\* refused by getRecordCID, which returns the same identifier to the owner
C16_Witness ==
    \E o \in Callers, a \in Callers :
        /\ a # o
        /\ accessPermissions[o][a]
        /\ getRecord(World, a, o).ok
        /\ getRecord(World, a, o).ret = records[o]
        /\ ~getRecordCID(World, a, o).ok
        /\ getRecordCID(World, a, o).err = ErrNotPatient
        /\ getRecordCID(World, o, o).ok
        /\ getRecordCID(World, o, o).ret = records[o]

\* the batch grant arguments hold an element the contract rejects
BadGrantBatch(grantees, wrappedKeys) ==
    \/ Len(grantees) # Len(wrappedKeys)
    \/ Len(grantees) = 0
    \/ \E i \in 1..Len(grantees) :
           grantees[i] = NullAddr \/ wrappedKeys[i] = <<>>

\* the batch revoke argument holds an element the contract rejects
BadRevokeBatch(grantees) ==
    \/ Len(grantees) = 0
    \/ \E i \in 1..Len(grantees) : grantees[i] = NullAddr

\* ------------------------------------------------------------------------
\* C17  Batches are all-or-nothing: batchGrantAccess with arrays of
\* different length, with empty arrays, or with an element whose recipient
\* is the zero address or whose key is empty, and batchRevokeAccess with an
\* empty array or a zero recipient, revert and leave every flag, every key
\* and the log as they were, the valid elements before the bad one
\* included; an owner's batch without such an element returns.
\* ------------------------------------------------------------------------
C17_BatchAllOrNothing ==
    \A s \in Callers :
        /\ \A b \in BatchInputs :
              LET r == batchGrantAccess(World, s, b[1], b[2])
              IN  /\ BadGrantBatch(b[1], b[2]) => ~r.ok
                  /\ ~r.ok => r.w = World
                  /\ hasRecord[s] /\ ~BadGrantBatch(b[1], b[2]) => r.ok
        /\ \A gs \in BatchGrantees :
              LET r == batchRevokeAccess(World, s, gs)
              IN  /\ BadRevokeBatch(gs) => ~r.ok
                  /\ ~r.ok => r.w = World
                  /\ hasRecord[s] /\ ~BadRevokeBatch(gs) => r.ok

\* an owner has granted one recipient and not another.  A batch grant whose
\* first element names the other recipient with a good key and whose second
\* element is bad reverts, and the other recipient stays without access; a
\* batch revoke naming the granted recipient and then the zero address
\* reverts, and the granted recipient keeps flag and key
C17_Witness ==
    \E s \in Callers, b \in BatchInputs, gs \in BatchGrantees :
        /\ hasRecord[s]
        /\ Len(b[1]) = 2 /\ Len(b[2]) = 2
        /\ b[1][1] # NullAddr /\ b[2][1] # <<>>
        /\ b[1][2] = NullAddr \/ b[2][2] = <<>>
        /\ ~accessPermissions[s][b[1][1]]
        /\ ~batchGrantAccess(World, s, b[1], b[2]).ok
        /\ ~batchGrantAccess(World, s, b[1], b[2]).w
                .accessPermissions[s][b[1][1]]
        /\ Len(gs) = 2 /\ gs[2] = NullAddr
        /\ accessPermissions[s][gs[1]]
        /\ ~batchRevokeAccess(World, s, gs).ok
        /\ batchRevokeAccess(World, s, gs).w.accessPermissions[s][gs[1]]
        /\ batchRevokeAccess(World, s, gs).w.log = log

\* ------------------------------------------------------------------------
\* C18  grantAccess rejects the caller as recipient: sent by an owner of a
\* record with recipient = caller and a non-empty key it reverts with the
\* invalid-grantee error, so no owner is ever granted access by itself and
\* no wrapped key is ever stored for the pair (owner, owner).
\* ------------------------------------------------------------------------
C18_NoSelfGrant ==
    \A o \in Callers :
        /\ hasRecord[o] =>
              \A k \in Keys \ {<<>>} :
                  LET r == grantAccess(World, o, o, k)
                  IN  ~r.ok /\ r.err = ErrInvalidGrantee /\ r.w = World
        /\ ~accessPermissions[o][o]
        /\ encryptedSymKeys[o][o] = <<>>

\* the private key that belongs to the public key the helpers derive from
\* an address
PrivateKeyOf(address) ==
    Slice(getBytes(keccak256(toUtf8Bytes(toLowerCase(address)))), 0, 32)

\* ------------------------------------------------------------------------
\* C19  Wrap/unwrap symmetry: a key wrapped for an address unwraps to
\* exactly that key for a signer address that spells the same address in
\* any letter case.  The package is the 33-byte ephemeral public key at
\* [0,33), the 12-byte IV at [33,45) and the ciphertext with its tag from
\* 45 on, and both sides hash the same 32 bytes of the same ECDH point.
\* ------------------------------------------------------------------------
C19_WrapUnwrapSymmetry ==
    /\ client.pc \in {"wrapped", "unwrapped"} =>
          LET wrapped == getBytes(client.wrappedKeyHex)
              ephemeralPubKey == getPublicKey(client.ephemeralPrivKey)
          IN  /\ Len(wrapped) = 33 + 12 + Len(client.aesKeyRaw) + 16
              /\ Slice(wrapped, 0, 33) = ephemeralPubKey
              /\ Slice(wrapped, 33, 45) = client.iv
              /\ Len(SliceFrom(wrapped, 45)) = Len(client.aesKeyRaw) + 16
              /\ Slice(getSharedSecret(
                           client.ephemeralPrivKey,
                           derivePublicKeyFromAddress(
                               client.recipientAddress)), 1, 33)
                    = Slice(getSharedSecret(
                                PrivateKeyOf(client.recipientAddress),
                                Slice(wrapped, 0, 33)), 1, 33)
    /\ client.pc = "unwrapped"
          /\ toLowerCase(client.signerAddress)
                = toLowerCase(client.recipientAddress) =>
          /\ client.unwrapped.ok
          /\ client.unwrapped.val = client.aesKeyRaw

\* a key wrapped for an address in mixed case has been unwrapped by a
\* signer that spells the address in another case, and is the key wrapped
C19_Witness ==
    /\ client.pc = "unwrapped"
    /\ client.signerAddress # client.recipientAddress
    /\ toLowerCase(client.signerAddress)
          = toLowerCase(client.recipientAddress)
    /\ client.recipientAddress # toLowerCase(client.recipientAddress)
    /\ client.unwrapped.ok
    /\ client.unwrapped.val = client.aesKeyRaw
    /\ client.unwrapped.val # Slice(getBytes(client.wrappedKeyHex), 45, 77)

\* ------------------------------------------------------------------------
\* C20  Record package round trip: decryptFile of the blob that encryptFile
\* made, with the key encryptFile generated, returns the file's bytes and
\* type and the metadata written at pack time.  The package is the 4-byte
\* length, the metadata text of that length and the ciphertext; the parser
\* reads the same three slices, and the IV it decrypts with is the IV the
\* file was encrypted with.
\* ------------------------------------------------------------------------
C20_PackageRoundTrip ==
    /\ client.pc \in {"encrypted", "decrypted"} =>
          LET packagedData == client.encrypted.encryptedBlob.bytes
              metadataLength == Uint32Value(Slice(packagedData, 0, 4))
          IN  /\ decodeUtf8(Slice(packagedData, 4, 4 + metadataLength))
                    = JSONstringify(client.encrypted.metadata)
              /\ SliceFrom(packagedData, 4 + metadataLength)
                    = encryptAES(client.file.bytes, client.encrypted.aesKey,
                                 client.iv).ciphertext
              /\ Len(packagedData)
                    = 4 + metadataLength + Len(client.file.bytes) + 16
              /\ getBytes(Field(client.encrypted.metadata, K_iv).v)
                    = client.iv
    /\ client.pc = "decrypted"
          /\ client.aesKey = client.encrypted.aesKey =>
          /\ client.decrypted.ok
          /\ client.decrypted.file.bytes = client.file.bytes
          /\ client.decrypted.file.type = client.file.type
          /\ client.decrypted.metadata = client.encrypted.metadata
          /\ Field(client.decrypted.metadata, K_fileName)
                = Str(client.file.name)
          /\ Field(client.decrypted.metadata, K_fileSize)
                = Num(Len(client.file.bytes))
          /\ getBytes(Field(client.decrypted.metadata, K_iv).v) = client.iv

\* a file of two bytes whose name holds a quotation mark and a backslash
\* has been encrypted and decrypted with the generated key, and content,
\* type and metadata came back
C20_Witness ==
    /\ client.pc = "decrypted"
    /\ client.aesKey = client.encrypted.aesKey
    /\ Len(client.file.bytes) = 2
    /\ \E i \in 1..Len(client.file.name) : client.file.name[i] = "\""
    /\ client.file.type # <<>>
    /\ client.decrypted.ok
    /\ client.decrypted.file.bytes = client.file.bytes
    /\ client.decrypted.metadata = client.encrypted.metadata
    /\ SliceFrom(client.encrypted.encryptedBlob.bytes,
                 Len(client.encrypted.encryptedBlob.bytes) - 18)
          # client.file.bytes \o Zeros(16)

\* byte i of a byte array with one of its bits flipped, as corruption in
\* storage or in transit leaves it
FlipBit(bytes, i, bit) ==
    [bytes EXCEPT ![i] = IF (@ \div (2 ^ bit)) % 2 = 1 THEN @ - (2 ^ bit)
                         ELSE @ + (2 ^ bit)]

\* the bits flipped in a byte: the lowest and the highest
FlippedBits == {0, 7}

\* ------------------------------------------------------------------------
\* C21  No silent corruption: unwrapKeyWithSigner and decryptAES return the
\* original key or plaintext, or fail.  With one bit flipped anywhere in
\* the ciphertext (tag included) of a wrapped key package or of a record
\* package they fail; unwrapping with an address other than the one the key
\* was wrapped for fails, and so does decrypting a record with another key.
\* ------------------------------------------------------------------------
C21_NoSilentCorruption ==
    /\ client.pc = "wrapped" =>
          LET wrapped == getBytes(client.wrappedKeyHex)
          IN  \A i \in 46..Len(wrapped), bit \in FlippedBits :
                  ~unwrapKeyWithSigner(hexlify(FlipBit(wrapped, i, bit)),
                                       client.recipientAddress).ok
    /\ client.pc = "unwrapped" =>
          /\ client.unwrapped.ok => client.unwrapped.val = client.aesKeyRaw
          /\ toLowerCase(client.signerAddress)
                # toLowerCase(client.recipientAddress) => ~client.unwrapped.ok
    /\ client.pc = "encrypted" =>
          LET packagedData == client.encrypted.encryptedBlob.bytes
              ciphertext == encryptAES(client.file.bytes,
                                       client.encrypted.aesKey,
                                       client.iv).ciphertext
              start == Len(packagedData) - Len(ciphertext)
          IN  \A i \in 1..Len(ciphertext), bit \in FlippedBits :
                  /\ ~decryptAES(FlipBit(ciphertext, i, bit),
                                 client.encrypted.aesKey, client.iv).ok
                  /\ ~decryptFile(
                          [bytes |-> FlipBit(packagedData, start + i, bit),
                           type |-> OctetStream],
                          client.encrypted.aesKey).ok
    /\ client.pc = "decrypted" =>
          /\ client.decrypted.ok =>
                client.decrypted.file.bytes = client.file.bytes
          /\ client.aesKey # client.encrypted.aesKey => ~client.decrypted.ok

\* a key has been wrapped for one address: the recipient unwraps it, while a
\* package with a flipped ciphertext bit, a package with a flipped tag bit
\* and the intact package in the hands of another address are all rejected
\* by the authentication of the cipher
C21_Witness ==
    /\ client.pc = "wrapped"
    /\ LET wrapped == getBytes(client.wrappedKeyHex)
           intact == unwrapKeyWithSigner(client.wrappedKeyHex,
                                         client.recipientAddress)
           body == unwrapKeyWithSigner(hexlify(FlipBit(wrapped, 46, 0)),
                                       client.recipientAddress)
           tag == unwrapKeyWithSigner(
                      hexlify(FlipBit(wrapped, Len(wrapped), 7)),
                      client.recipientAddress)
       IN  /\ intact.ok /\ intact.val = client.aesKeyRaw
           /\ ~body.ok /\ body.err = "OperationError"
           /\ ~tag.ok /\ tag.err = "OperationError"
           /\ \E a \in WalletAddresses :
                  /\ toLowerCase(a) # toLowerCase(client.recipientAddress)
                  /\ ~unwrapKeyWithSigner(client.wrappedKeyHex, a).ok
                  /\ unwrapKeyWithSigner(client.wrappedKeyHex, a).err
                        = "OperationError"

\* ------------------------------------------------------------------------
\* C22  Reads of an address that never uploaded: getRecord and getWrappedKey
\* on a patient without a record revert with the patient-has-no-record
\* error for every caller, the patient included, return neither identifier
\* nor key and leave storage and log as they were.
\* ------------------------------------------------------------------------
C22_NoRecordNoRead ==
    \A p \in Addresses :
        ~hasRecord[p] =>
            \A a \in Accounts :
                LET r == getRecord(World, a, p)
                    k == getWrappedKey(World, a, p)
                IN  /\ ~r.ok /\ r.err = ErrNoRecord /\ r.ret = NoValue
                    /\ r.w = World
                    /\ ~k.ok /\ k.err = ErrNoRecord /\ k.ret = NoValue
                    /\ k.w = World

\* while another owner holds a record and has granted a recipient, an
\* address that never uploaded reads itself, and the recipient reads that
\* address: all four calls revert for the missing record
C22_Witness ==
    \E p \in Callers, o \in Callers, a \in Accounts :
        /\ ~hasRecord[p] /\ UploadsOf(p) = {}
        /\ hasRecord[o] /\ accessPermissions[o][a] /\ a # p
        /\ getRecord(World, a, o).ok
        /\ getRecord(World, p, p).err = ErrNoRecord
        /\ getWrappedKey(World, p, p).err = ErrNoRecord
        /\ getRecord(World, a, p).err = ErrNoRecord
        /\ getWrappedKey(World, a, p).err = ErrNoRecord

\* ------------------------------------------------------------------------
\* C23 (as stated)  Revoke on a pair without access is a silent no-op: for
\* every owner with a record and every recipient address whose pair is not
\* granted, revokeAccess returns, changes no state and appends no event.
\* ------------------------------------------------------------------------
C23_RevokeNoOpAsStated ==
    \A o \in Callers, r \in Addresses :
        (hasRecord[o] /\ ~accessPermissions[o][r]) =>
            LET v == revokeAccess(World, o, r)
            IN  v.ok /\ v.w = World

\* ------------------------------------------------------------------------
\* C23  Revoke on a pair without access is a silent no-op for every
\* recipient but the zero address: for every owner with a record and every
\* non-zero recipient whose pair is not granted (never granted, or already
\* revoked), revokeAccess returns, changes no state and appends no event;
\* with the zero address as recipient it reverts with the invalid-grantee
\* error.
\* ------------------------------------------------------------------------
C23_RevokeNoOp ==
    \A o \in Callers :
        hasRecord[o] =>
            /\ \A r \in Accounts :
                  ~accessPermissions[o][r] =>
                      LET v == revokeAccess(World, o, r)
                      IN  v.ok /\ v.w = World
            /\ LET z == revokeAccess(World, o, NullAddr)
               IN  ~z.ok /\ z.err = ErrInvalidGrantee /\ z.w = World

\* an owner has granted and revoked one recipient and never granted
\* another: a further revoke of either returns and leaves the world as it
\* is, the log still ending in the event of the one effective revoke
C23_Witness ==
    /\ lastCall.op = "revokeAccess" /\ lastCall.ok /\ lastCall.emitted = 1
    /\ LET o == LastEvent.patient
           r == LastEvent.grantee
       IN  /\ ~accessPermissions[o][r]
           /\ revokeAccess(World, o, r).ok
           /\ revokeAccess(World, o, r).w = World
           /\ \E x \in Accounts \ {r} :
                  /\ \A i \in 1..Len(log) :
                        log[i].event = "AccessUpdated" => log[i].grantee # x
                  /\ revokeAccess(World, o, x).ok
                  /\ revokeAccess(World, o, x).w.log = log

\* ------------------------------------------------------------------------
\* C24  The permission state machine has no terminal state: in every
\* reachable state, whatever the pair went through before, an owner with a
\* record can grant a recipient with key k1, revoke, grant again with key
\* k2 and revoke again; every one of the four calls returns and takes
\* effect, and after the second grant the pair is granted and getWrappedKey
\* hands the recipient k2, not k1.
\* ------------------------------------------------------------------------
C24_NoTerminalState ==
    \A o \in Callers :
        hasRecord[o] =>
            \A r \in Accounts, k1 \in Keys \ {<<>>}, k2 \in Keys \ {<<>>} :
                LET g1 == grantAccess(World, o, r, k1)
                    v1 == revokeAccess(g1.w, o, r)
                    g2 == grantAccess(v1.w, o, r, k2)
                    v2 == revokeAccess(g2.w, o, r)
                IN  /\ g1.ok /\ g1.w.accessPermissions[o][r]
                    /\ getWrappedKey(g1.w, r, o).ret = k1
                    /\ v1.ok /\ ~v1.w.accessPermissions[o][r]
                    /\ ~getWrappedKey(v1.w, r, o).ok
                    /\ g2.ok /\ g2.w.accessPermissions[o][r]
                    /\ getWrappedKey(g2.w, r, o).ok
                    /\ getWrappedKey(g2.w, r, o).ret = k2
                    /\ k1 # k2 => getWrappedKey(g2.w, r, o).ret # k1
                    /\ v2.ok /\ ~v2.w.accessPermissions[o][r]
                    /\ v2.w.encryptedSymKeys[o][r] = <<>>

\* a pair has been granted and then revoked; the owner grants it again with
\* a key, and the recipient is handed that key
C24_Witness ==
    /\ lastCall.op = "revokeAccess" /\ lastCall.ok /\ lastCall.emitted = 1
    /\ LET o == LastEvent.patient
           r == LastEvent.grantee
       IN  /\ \E i \in 1..Len(log) : log[i] = AccessUpdated(o, r, TRUE)
           /\ ~accessPermissions[o][r]
           /\ encryptedSymKeys[o][r] = <<>>
           /\ \E k2 \in Keys \ {<<>>} :
                  LET g2 == grantAccess(World, o, r, k2)
                  IN  /\ g2.ok
                      /\ g2.w.accessPermissions[o][r]
                      /\ getWrappedKey(g2.w, r, o).ret = k2
                      /\ g2.w.log = Append(log, AccessUpdated(o, r, TRUE))

\* ------------------------------------------------------------------------
\* C25  One audit entry per state-changing call: every uploadRecord that
\* returns appends exactly one RecordUploaded event of the caller, and every
\* grantAccess that returns appends exactly one AccessUpdated event with
\* granted = true and the caller as patient, also when the pair is already
\* granted: the repeated grant replaces the stored key and is logged again.
\* ------------------------------------------------------------------------
C25_OneEntryPerCall ==
    /\ \A s \in Callers, c \in CIDs :
          LET u == uploadRecord(World, s, c)
          IN  u.ok => u.w.log = Append(log, RecordUploaded(s, c))
    /\ \A s \in Callers, g \in Addresses, k \in Keys :
          LET r == grantAccess(World, s, g, k)
          IN  r.ok => /\ r.w.log = Append(log, AccessUpdated(s, g, TRUE))
                      /\ r.w.encryptedSymKeys[s][g] = k
    /\ (lastCall.op \in {"uploadRecord", "grantAccess"} /\ lastCall.ok) =>
          lastCall.emitted = 1

\* a pair that was already granted has been granted again: the log holds
\* the two events one after the other, and a third grant with another key
\* would be logged and stored as well
C25_Witness ==
    /\ lastCall.op = "grantAccess" /\ lastCall.ok /\ lastCall.emitted = 1
    /\ Len(log) >= 3
    /\ LastEvent.event = "AccessUpdated" /\ LastEvent.granted
    /\ log[Len(log) - 1] = LastEvent
    /\ \E k \in Keys \ {<<>>} :
          LET r == grantAccess(World, LastEvent.patient, LastEvent.grantee, k)
          IN  /\ k # encryptedSymKeys[LastEvent.patient][LastEvent.grantee]
              /\ r.ok
              /\ Len(r.w.log) = Len(log) + 1
              /\ r.w.encryptedSymKeys[LastEvent.patient][LastEvent.grantee]
                    = k

\* ------------------------------------------------------------------------
\* C26  Granted recipients can always decrypt the current record: in every
\* state of the Upload page and the registry, for every recipient granted
\* by the patient, the wrapped key stored for the pair unwraps, for the
\* recipient's address, to the key under which the patient's registered
\* record was encrypted, and that key decrypts the record's package; also
\* after the patient has uploaded a new record.
\* ------------------------------------------------------------------------
C26_GrantedCanDecrypt ==
    client.pc = "page" =>
        \A r \in Accounts :
            (hasRecord[PatientAccount]
                /\ accessPermissions[PatientAccount][r]) =>
                LET cid == records[PatientAccount]
                    unwrapped ==
                        unwrapKeyWithSigner(
                            hexlify(encryptedSymKeys[PatientAccount][r]),
                            toLowerCase(WalletOf[r]))
                IN  /\ unwrapped.ok
                    /\ Some(hexlify(unwrapped.val))
                          = client.localStorage[cid]
                    /\ decryptFile(client.pinned[cid].v,
                                   importAESKey(unwrapped.val)).ok

\* the positions of the AccessUpdated events of the pair (o, r) in the log
UpdatesOf(o, r) ==
    {i \in 1..Len(log) : /\ log[i].event = "AccessUpdated"
                         /\ log[i].patient = o
                         /\ log[i].grantee = r}

\* the permission of the pair (o, r) that a replay of the log arrives at
ReplayedPermission(o, r) ==
    IF UpdatesOf(o, r) = {} THEN FALSE
    ELSE log[CHOOSE i \in UpdatesOf(o, r) :
                 \A j \in UpdatesOf(o, r) : j <= i].granted

\* ------------------------------------------------------------------------
\* C27  The audit log replays to the registry state: in every reachable
\* state the permission flag of every pair (o, r) equals the granted field
\* of the last AccessUpdated event of the pair in the log, and is false when
\* the log holds none; an owner has a record exactly when the log holds a
\* RecordUploaded event of the owner, and the stored content identifier is
\* then that of the last such event.
\* ------------------------------------------------------------------------
C27_LogReplaysToState ==
    /\ \A o \in Addresses, r \in Addresses :
          accessPermissions[o][r] = ReplayedPermission(o, r)
    /\ \A o \in Addresses :
          IF UploadsOf(o) = {} THEN ~hasRecord[o] /\ records[o] = ""
          ELSE hasRecord[o] /\ records[o] = LastUploaded(o)

\* an owner has uploaded, granted a recipient and revoked it: the replay of
\* the pair's two events ends at false, as the flag says, the replay of a
\* pair without events gives false, and the stored identifier is that of
\* the upload in the log
C27_Witness ==
    \E o \in Callers, r \in Accounts, x \in Accounts :
        /\ r # x
        /\ Cardinality(UpdatesOf(o, r)) >= 2
        /\ \E i \in UpdatesOf(o, r) : log[i].granted
        /\ ~ReplayedPermission(o, r) /\ ~accessPermissions[o][r]
        /\ UpdatesOf(o, x) = {}
        /\ ~ReplayedPermission(o, x) /\ ~accessPermissions[o][x]
        /\ UploadsOf(o) # {}
        /\ records[o] = LastUploaded(o)

\* the world after grantAccess transactions for the pairs from index i on,
\* one transaction per pair, in list order
RECURSIVE GrantEach(_, _, _, _, _)
GrantEach(w, sender, grantees, wrappedKeys, i) ==
    IF i > Len(grantees) THEN w
    ELSE GrantEach(grantAccess(w, sender, grantees[i], wrappedKeys[i]).w,
                   sender, grantees, wrappedKeys, i + 1)

\* the world after revokeAccess transactions for the recipients from index
\* i on, one transaction per recipient, in list order
RECURSIVE RevokeEach(_, _, _, _)
RevokeEach(w, sender, grantees, i) ==
    IF i > Len(grantees) THEN w
    ELSE RevokeEach(revokeAccess(w, sender, grantees[i]).w, sender, grantees,
                    i + 1)

\* ------------------------------------------------------------------------
\* C28  Batch equals sequence: for an owner with a record and a non-empty
\* list of valid (recipient, wrapped key) pairs, batchGrantAccess returns
\* and leaves the flags, keys and log that one grantAccess per pair in list
\* order leaves, one event per pair, so that for a recipient listed twice
\* the later key is stored; batchRevokeAccess with a non-empty list of
\* non-zero recipients leaves what one revokeAccess per recipient leaves,
\* with one event per recipient that was granted, listed once or twice.
\* ------------------------------------------------------------------------
C28_BatchEqualsSequence ==
    \A s \in Callers :
        hasRecord[s] =>
            /\ \A b \in BatchInputs :
                  ~BadGrantBatch(b[1], b[2]) =>
                      LET r == batchGrantAccess(World, s, b[1], b[2])
                      IN  /\ r.ok
                          /\ r.w = GrantEach(World, s, b[1], b[2], 1)
                          /\ Len(r.w.log) = Len(log) + Len(b[1])
                          /\ \A i \in 1..Len(b[1]) :
                                r.w.log[Len(log) + i]
                                    = AccessUpdated(s, b[1][i], TRUE)
                          /\ r.w.encryptedSymKeys[s][b[1][Len(b[1])]]
                                = b[2][Len(b[2])]
            /\ \A gs \in BatchGrantees :
                  ~BadRevokeBatch(gs) =>
                      LET r == batchRevokeAccess(World, s, gs)
                      IN  /\ r.ok
                          /\ r.w = RevokeEach(World, s, gs, 1)
                          /\ Len(r.w.log) = Len(log) + Cardinality(
                                {g \in {gs[i] : i \in 1..Len(gs)} :
                                    accessPermissions[s][g]})

\* an owner has granted a recipient.  A batch grant that lists that
\* recipient twice, with two keys, appends two events and stores the second
\* key, as two grants do; a batch revoke that lists the recipient twice
\* appends one event, as two revokes do
C28_Witness ==
    \E s \in Callers, b \in BatchInputs, gs \in BatchGrantees :
        /\ hasRecord[s]
        /\ Len(b[1]) = 2 /\ Len(b[2]) = 2 /\ ~BadGrantBatch(b[1], b[2])
        /\ b[1][1] = b[1][2] /\ b[2][1] # b[2][2]
        /\ accessPermissions[s][b[1][1]]
        /\ LET r == batchGrantAccess(World, s, b[1], b[2])
           IN  /\ r.ok
               /\ Len(r.w.log) = Len(log) + 2
               /\ r.w.encryptedSymKeys[s][b[1][1]] = b[2][2]
               /\ r.w = GrantEach(World, s, b[1], b[2], 1)
        /\ gs = b[1]
        /\ LET v == batchRevokeAccess(World, s, gs)
           IN  /\ v.ok
               /\ Len(v.w.log) = Len(log) + 1
               /\ v.w = RevokeEach(World, s, gs, 1)

RetryIsBounded ==
    client.pc \in {"while", "delay", "returned", "thrown"} =>
        LET n == Len(client.invoked)
            stops(o) == o.name = "AbortError" \/ o.code = "INVALID_CID"
        IN  /\ n <= client.maxRetries
            /\ \A i \in 1..(n - 1) :
                  ~client.invoked[i].ok /\ ~stops(client.invoked[i])
            /\ (n > 0 /\ client.invoked[n].ok) =>
                  /\ client.pc = "returned"
                  /\ client.value = client.invoked[n].value
            /\ (n > 0 /\ ~client.invoked[n].ok /\ stops(client.invoked[n])) =>
                  client.pc = "thrown"
            /\ client.pc = "returned" => n > 0 /\ client.invoked[n].ok
            /\ client.pc = "thrown" =>
                  /\ n > 0
                  /\ ~client.invoked[n].ok
                  /\ client.error = client.invoked[n]
                  /\ stops(client.invoked[n]) \/ n = client.maxRetries

\* ------------------------------------------------------------------------
\* C30  withRetry is bounded and stops on errors that are not retried: for
\* every maxRetries >= 1 it invokes fn at most maxRetries times, returns
\* the first fulfilled value without invoking fn again, invokes fn no
\* further after a rejection with name AbortError or code INVALID_CID, and
\* otherwise ends by throwing the error of the last invocation after
\* exactly maxRetries rejections; and it always ends.
\* ------------------------------------------------------------------------
C30_BoundedRetry ==
    /\ [](RetryIsBounded)
    /\ <>(client.pc \in {"returned", "thrown"})

\* a call with maxRetries = 3 whose first invocation timed out and whose
\* second was rejected for an invalid content identifier has thrown that
\* error without a third invocation
C30_Witness ==
    /\ client.pc = "thrown"
    /\ client.maxRetries = 3
    /\ Len(client.invoked) = 2
    /\ client.invoked[1] = Rejected("IPFSError", "TIMEOUT")
    /\ client.invoked[2] = Rejected("IPFSError", "INVALID_CID")
    /\ client.error = client.invoked[2]
    /\ client.attempt = 2

====
